---- MODULE Spec2Model ----
(***************************************************************************)
(* cosmofy: the archive mutation engine (src/src/cosmofy/zipfile2.py).     *)
(*                                                                         *)
(* ZipFile2 extends zipfile.ZipFile with add_file and remove.  The backing *)
(* storage is a sequence of cells; one cell stands for one fixed-size      *)
(* piece of the ZIP format:                                                *)
(*   <<"lfh", filename, file_size, external_attr>>   local file header     *)
(*   <<"data", b>>                                   one payload byte      *)
(*   <<"cd", filename, header_offset, file_size, external_attr>>           *)
(*                                                   central dir. entry    *)
(*   <<"eocd", offset_cd, size_cd>>                  end-of-directory rec. *)
(* Offsets are 0-based as in the code: the cell at offset o is storage[o+1]*)
(* ZipInfo objects live in a heap (infos) and are named by their id, so    *)
(* that `member == info` (object identity) is id equality.                 *)
(* The storage is what the repository opens a ZipFile2 on: a file          *)
(* (bundler.py:64) or an io.BytesIO (the tests); both can be truncated.    *)
(***************************************************************************)
EXTENDS Integers, Sequences, FiniteSets

VARIABLES
    mode,        \* ZipFile.mode: "r" or "a"
    fp,          \* ZipFile.fp: "open" or "None" (closed)
    _writing,    \* ZipFile._writing: a writing handle is open
    _didModify,  \* ZipFile._didModify
    filelist,    \* ZipFile.filelist: sequence of ZipInfo ids (listing order)
    infos,       \* heap of ZipInfo objects: id -> ZipInfo
    NameToInfo,  \* ZipFile.NameToInfo: filename -> ZipInfo id
    start_dir,   \* ZipFile.start_dir
    storage,     \* the bytes behind fp
    handle,      \* id of the ZipInfo of the open writing handle, 0 if none
    data,        \* id -> the payload that was handed to add_file / written
    nadds,       \* how many members have been written so far (bounded)
    dirty,       \* this container object has removed a member
    last         \* the last call: operation, exception raised, case

vars == <<mode, fp, _writing, _didModify, filelist, infos, NameToInfo,
          start_dir, storage, handle, data, nadds, dirty, last>>

\* The receipt record (src/src/cosmofy/receipt.py) is exercised by a
\* specification of its own, ReceiptSpec; the archive stands still there,
\* and the receipt stands still in Spec.
VARIABLES
    receipt,     \* the Receipt the methods are called on: <<>> or <<r>>
    other,       \* a second Receipt object: <<>> or <<r>>
    record,      \* a dict handed to / returned by the receipt: <<>> or <<d>>
    ret          \* the last receipt call: operation, exception, value

rvars == <<receipt, other, record, ret>>

\* The self-updater (src/src/cosmofy/updater.py: self_update and what it
\* calls) runs in a specification of its own, UpdaterSpec.
VARIABLES
    pc,          \* where self_update is: the next step, or "done"
    live,        \* the file at `path`, the running artifact: [content, mode]
    temp,        \* the temporary file: <<>> (no such file) or <<file>>
    stored,      \* the dict stored in the artifact under PATH_RECEIPT
    ENV,         \* os.environ: a dict
    same_fs,     \* the temporary directory is on the file system of `path`
    local,       \* self_update's local: <<>> or <<Receipt>>
    remote,      \* self_update's remote: <<>> or <<Receipt>>
    stream,      \* the chunks the open release response has yet to yield
    digest,      \* the bytes the running digest was updated with
    received,    \* download_release's received: <<>> or <<hexdigest>>
    events,      \* the requests and file operations so far, in order
    result       \* "running", "return 0", "return 1" or "raise <error>"

uvars == <<pc, live, temp, stored, ENV, same_fs, local, remote, stream,
           digest, received, events, result>>

\* The downloader (src/src/cosmofy/downloader.py: progress, download,
\* download_if_newer, download_and_hash) runs in DownloaderSpec.
VARIABLES
    called,      \* the function that was called
    step,        \* where the call is: "start", "open", "chunks" or "done"
    on_disk,     \* `path` when the call is made: <<>> (no such file) or
                 \* <<st_mtime>>
    resource,    \* what the URL serves: the Last-Modified and
                 \* Content-Length headers (<<>> when not sent) and the body
    requested,   \* the methods of the requests issued so far, in order
    unread,      \* the chunks response.read has yet to return
    total,       \* progress's total
    done_bytes,  \* progress's done
    shown,       \* the percentages printed so far
    output,      \* the file opened for writing: <<>> or <<bytes written>>
    hashed,      \* the bytes the digest was updated with
    outcome      \* the exception raised / the value returned

dvars == <<called, step, on_disk, resource, requested, unread, total,
           done_bytes, shown, output, hashed, outcome>>

\* The bundler's file and archive operations (src/src/cosmofy/bundler.py)
\* run in BundlerSpec.
VARIABLES
    args,        \* Args: dry_run, release_url, args
    disk,        \* the files on disk: path -> <<>> (no such file) or <<file>>
    archive,     \* the archive the bundler works on: the path of the file
                 \* behind it (<<>> for an io.BytesIO) and its listing
    did          \* the last bundler call: operation, exception

bvars == <<args, disk, archive, did>>

\* The Python command line emulation (src/src/cosmofy/updater.py and
\* src/src/cosmofy/pythonoid.py: PythonArgs.parse, run_python, main) runs
\* in PythonSpec.
VARIABLES
    flavour,     \* the module that runs: "updater" or "pythonoid"
    sys_argv,    \* sys.argv[1:] of the process
    passed,      \* the argv main was called with: <<>> (None) or <<list>>
    argv,        \* parse's argv: the tokens yet to be processed
    pyargs,      \* parse's args: the PythonArgs under construction
    ctl,         \* where the call is: "main", "loop", "end", "raised",
                 \* "parsed" or "done"
    ran,         \* what was executed or printed so far, in order
    code         \* "running", "return <n>" or "raise <exception>"

pvars == <<flavour, sys_argv, passed, argv, pyargs, ctl, ran, code>>

\* Bundler.run (src/src/cosmofy/bundler.py) runs in RunSpec.
VARIABLES
    stage,       \* the step of run that comes next, or "done"
    opts,        \* self.args of the run
    target,      \* the archive run works on: the file behind it (<<>> for
                 \* an io.BytesIO), the ZipFile2, and whether zip_add has
                 \* found a main module
    journal,     \* the archive and file operations issued so far, in order
    returned     \* <<>> while running, then <<outcome>>

nvars == <<stage, opts, target, journal, returned>>

\* what the archive's actions leave alone
NotArchive == <<rvars, uvars, dvars, bvars, pvars, nvars>>

UpdaterIdle ==
    /\ pc = "idle"
    /\ live = [content |-> <<>>, mode |-> 0]
    /\ temp = <<>> /\ stored = <<>> /\ ENV = <<>> /\ same_fs = TRUE
    /\ local = <<>> /\ remote = <<>> /\ stream = <<>> /\ digest = <<>>
    /\ received = <<>> /\ events = <<>> /\ result = "idle"

ReceiptIdle ==
    /\ receipt = <<>>
    /\ other = <<>>
    /\ record = <<>>
    /\ ret = [op |-> "idle", exc |-> "none", val |-> <<>>]

DownloaderIdle ==
    /\ called = "idle" /\ step = "idle"
    /\ on_disk = <<>> /\ resource = <<>> /\ requested = <<>>
    /\ unread = <<>> /\ total = 0 /\ done_bytes = 0 /\ shown = <<>>
    /\ output = <<>> /\ hashed = <<>>
    /\ outcome = [exc |-> "none", val |-> <<>>]

BundlerIdle ==
    /\ args = <<>>
    /\ disk = <<>>
    /\ archive = <<>>
    /\ did = [op |-> "idle", exc |-> "none"]

PythonIdle ==
    /\ flavour = "idle" /\ sys_argv = <<>> /\ passed = <<>>
    /\ argv = <<>> /\ pyargs = <<>> /\ ctl = "idle"
    /\ ran = <<>> /\ code = "idle"

RunIdle ==
    /\ stage = "idle" /\ opts = <<>>
    /\ target = <<>> /\ journal = <<>> /\ returned = <<>>

---------------------------------------------------------------------------
(* Bounds and input sets *)

MaxAdds == 1

Names == {<<"a">>, <<"b">>}
Absent == <<"z">>
Globs == {<<"a", "*">>, <<"?">>, <<"*", "b">>, <<"z", "*">>}
Patterns == Names \cup {Absent} \cup Globs
Payloads == {<<>>, <<0>>}
Modes == {420, 493}
DefaultMode == 420
ReopenModes == {"r"}

---------------------------------------------------------------------------
(* Helpers on sequences and storage *)

Min(a, b) == IF a < b THEN a ELSE b

Range(s) == {s[i] : i \in 1..Len(s)}

\* fp.seek(p); fp.write(d)
WriteAt(s, p, d) ==
    SubSeq(s, 1, p) \o d \o SubSeq(s, p + Len(d) + 1, Len(s))

\* fp.seek(p); fp.read(n)
ReadAt(s, p, n) == SubSeq(s, p + 1, Min(p + n, Len(s)))

\* list.remove(x): drops the first element equal to x
RECURSIVE list_remove(_, _)
list_remove(s, x) ==
    IF s = <<>> THEN <<>>
    ELSE IF Head(s) = x THEN Tail(s)
    ELSE <<Head(s)>> \o list_remove(Tail(s), x)

\* del d[k]
dict_del(d, k) == [n \in (DOMAIN d) \ {k} |-> d[n]]

\* d[k] = v
dict_set(d, k, v) == [n \in (DOMAIN d) \cup {k} |-> IF n = k THEN v ELSE d[n]]

\* fnmatch.fnmatch(name, pat) for patterns made of literals, "*" and "?"
RECURSIVE fnmatch(_, _)
fnmatch(name, pat) ==
    IF pat = <<>> THEN name = <<>>
    ELSE IF Head(pat) = "*"
        THEN fnmatch(name, Tail(pat))
             \/ (name # <<>> /\ fnmatch(Tail(name), pat))
    ELSE IF Head(pat) = "?"
        THEN name # <<>> /\ fnmatch(Tail(name), Tail(pat))
    ELSE name # <<>> /\ Head(name) = Head(pat)
         /\ fnmatch(Tail(name), Tail(pat))

\* "*" in member or "?" in member
is_glob(member) == \E i \in 1..Len(member) : member[i] \in {"*", "?"}

---------------------------------------------------------------------------
(* ZipInfo and the on-disk records *)

\* A 32-bit field is kept as <<high 16 bits, low 16 bits>>.
\* x << 16, for x below 2^16
shl16(x) == <<x, 0>>

\* (0x8000 | (mode & 0xFFFF)) << 16
external_attr_of(m) ==
    LET low == m % 65536
        marked == IF (low \div 32768) % 2 = 1 THEN low ELSE low + 32768
    IN shl16(marked)

FileHeader(zi) == <<"lfh", zi.filename, zi.file_size, zi.external_attr>>

DataCells(payload) == [i \in 1..Len(payload) |-> <<"data", payload[i]>>]

CentDir(zi) ==
    <<"cd", zi.filename, zi.header_offset, zi.file_size, zi.external_attr>>

IsCell(c, kind) == c[1] = kind

\* smallest id not in use
NewId(h) == CHOOSE n \in 1..(Cardinality(DOMAIN h) + 1) : n \notin DOMAIN h

---------------------------------------------------------------------------
(* The container as a value: the fields of one ZipFile2 object and the     *)
(* storage behind it.  exc is the exception the last call raised.          *)

Container ==
    [mode |-> mode, fp |-> fp, _writing |-> _writing,
     _didModify |-> _didModify, filelist |-> filelist, infos |-> infos,
     NameToInfo |-> NameToInfo, start_dir |-> start_dir,
     storage |-> storage, handle |-> handle, exc |-> "none"]

Raise(z, e) == [z EXCEPT !.exc = e]

\* the listing as it is, not sorted
listing_order(fl, inf) == fl

\* sorted(self.filelist, key=attrgetter("header_offset")): stable
RECURSIVE sorted_by_header_offset(_, _)
sorted_by_header_offset(fl, inf) ==
    IF fl = <<>> THEN <<>>
    ELSE LET least == CHOOSE i \in 1..Len(fl) :
                 /\ \A j \in 1..Len(fl) :
                        inf[fl[i]].header_offset <= inf[fl[j]].header_offset
                 /\ \A j \in 1..(i - 1) :
                        inf[fl[j]].header_offset # inf[fl[i]].header_offset
         IN <<fl[least]>> \o
            sorted_by_header_offset(
                SubSeq(fl, 1, least - 1) \o SubSeq(fl, least + 1, Len(fl)), inf)

\* entry_size_at without the case of the last entry
entry_size_no_last(sorted, i, inf, sd) ==
    IF i = Len(sorted) THEN 0
    ELSE inf[sorted[i + 1]].header_offset - inf[sorted[i]].header_offset

\* the size of the entry taken to be its payload, without the header
entry_size_without_header(sorted, i, inf, sd) == inf[sorted[i]].file_size

\* zipfile2.py:94-98: the total size of the entry at index i (1-based)
entry_size_at(sorted, i, inf, sd) ==
    IF i = Len(sorted)
    THEN sd - inf[sorted[i]].header_offset
    ELSE inf[sorted[i + 1]].header_offset - inf[sorted[i]].header_offset

\* fp.read(n): a negative n reads to the end of the file
fp_read(s, p, n) == IF n < 0 THEN SubSeq(s, p + 1, Len(s)) ELSE ReadAt(s, p, n)

\* relocate with the write made at the offset the entry was read from
relocate_in_place(s, old, new, size) == WriteAt(s, old, fp_read(s, old, size))

\* relocate with the entry's last byte left behind
relocate_short(s, old, new, size) ==
    WriteAt(s, new, fp_read(s, old, size - 1))

\* zipfile2.py:105-115: read the entry at its offset, write it at the new one
relocate(s, old, new, size) == WriteAt(s, new, fp_read(s, old, size))

\* zipfile2.py:89-115: the loop of _remove_member
RECURSIVE move_entries(_, _, _, _, _, _, _)
move_entries(sorted, i, member, entry_offset, inf, s, sd) ==
    IF i > Len(sorted)
    THEN [infos |-> inf, storage |-> s, entry_offset |-> entry_offset]
    ELSE LET info == sorted[i] IN
        IF inf[info].header_offset < inf[member].header_offset
        THEN move_entries(sorted, i + 1, member, entry_offset, inf, s, sd)
        ELSE LET entry_size == entry_size_at(sorted, i, inf, sd) IN
            IF member = info
            THEN move_entries(sorted, i + 1, member, entry_size, inf, s, sd)
            ELSE LET new_offset == inf[info].header_offset - entry_offset
                 IN move_entries(sorted, i + 1, member, entry_offset,
                        [inf EXCEPT ![info].header_offset = new_offset],
                        relocate(s, inf[info].header_offset, new_offset,
                                 entry_size), sd)

\* zipfile2.py:80-125.  The removed ZipInfo is dropped from the heap: the
\* container no longer refers to it.
_remove_member(z, member) ==
    LET sorted == sorted_by_header_offset(z.filelist, z.infos)
        r == move_entries(sorted, 1, member, 0, z.infos, z.storage, z.start_dir)
        name == z.infos[member].filename
        z1 == [z EXCEPT !.storage = r.storage,
                        !.start_dir = z.start_dir - r.entry_offset,
                        !.filelist = list_remove(z.filelist, member),
                        !.infos = dict_del(r.infos, member)]
    IN IF name \notin DOMAIN z.NameToInfo
       THEN Raise(z1, "KeyError")
       ELSE [z1 EXCEPT !.NameToInfo = dict_del(z.NameToInfo, name),
                       !._didModify = TRUE]

\* zipfile2.py:75-78: for item in self.filelist, while _remove_member
\* shrinks that same list: the iterator keeps its index
RECURSIVE glob_loop(_, _, _)
glob_loop(z, i, pat) ==
    IF i > Len(z.filelist) THEN z
    ELSE LET item == z.filelist[i] IN
        IF fnmatch(z.infos[item].filename, pat)
        THEN LET z1 == _remove_member(z, item) IN
             IF z1.exc # "none" THEN z1 ELSE glob_loop(z1, i + 1, pat)
        ELSE glob_loop(z, i + 1, pat)

\* the checks of remove() with the closed check made before the mode check
remove_check_closed_first(z) ==
    IF z.fp = "None" THEN "ValueError:closed"
    ELSE IF z.mode # "a" THEN "RuntimeError"
    ELSE IF z._writing THEN "ValueError:writing"
    ELSE "none"

\* zipfile2.py:57-64: the three checks of remove()
remove_check(z) ==
    IF z.mode # "a" THEN "RuntimeError"
    ELSE IF z.fp = "None" THEN "ValueError:closed"
    ELSE IF z._writing THEN "ValueError:writing"
    ELSE "none"

\* ZipFile.getinfo(name): the id, or 0 for KeyError
getinfo(z, name) ==
    IF name \in DOMAIN z.NameToInfo THEN z.NameToInfo[name] ELSE 0

\* remove(member) for a str, a glob that matches nothing raising like a name
remove_name_strict(z, member) ==
    IF ~is_glob(member)
    THEN IF getinfo(z, member) = 0 THEN Raise(z, "KeyError")
         ELSE _remove_member(z, getinfo(z, member))
    ELSE IF \A i \in 1..Len(z.filelist) :
                ~fnmatch(z.infos[z.filelist[i]].filename, member)
         THEN Raise(z, "KeyError")
         ELSE glob_loop(z, 1, member)

\* remove(member) for a str, an absent name ignored like a glob
remove_name_lenient(z, member) ==
    IF ~is_glob(member)
    THEN IF getinfo(z, member) = 0 THEN z
         ELSE _remove_member(z, getinfo(z, member))
    ELSE glob_loop(z, 1, member)

\* zipfile2.py:70-78: remove(member) for a str
remove_name(z, member) ==
    IF ~is_glob(member)
    THEN IF getinfo(z, member) = 0 THEN Raise(z, "KeyError")
         ELSE _remove_member(z, getinfo(z, member))
    ELSE glob_loop(z, 1, member)

\* zipfile2.py:55-78: remove(member), member a str
remove(z, member) ==
    IF remove_check(z) # "none" THEN Raise(z, remove_check(z))
    ELSE remove_name(z, member)

\* zipfile2.py:55-68: remove(member), member a ZipInfo of the listing
remove_info(z, member) ==
    IF remove_check(z) # "none" THEN Raise(z, remove_check(z))
    ELSE _remove_member(z, member)

---------------------------------------------------------------------------
(* Writing members: add_file and the zipfile.ZipFile methods it runs *)

\* _writecheck refusing a name that is already indexed
_writecheck_unique(z, zinfo) ==
    IF zinfo.filename \in DOMAIN z.NameToInfo THEN "ValueError:duplicate"
    ELSE IF z.mode \notin {"w", "x", "a"} THEN "ValueError:mode"
    ELSE IF z.fp = "None" THEN "ValueError:closed"
    ELSE "none"

\* ZipFile._writecheck(zinfo): a duplicate name only warns
_writecheck(z, zinfo) ==
    IF z.mode \notin {"w", "x", "a"} THEN "ValueError:mode"
    ELSE IF z.fp = "None" THEN "ValueError:closed"
    ELSE "none"

\* ZipFile._open_to_write(zinfo): header at start_dir, handle opened
_open_to_write(z, id, zinfo) ==
    IF z._writing THEN Raise(z, "ValueError:writing")
    ELSE LET zi == [zinfo EXCEPT !.flag_bits = 0,
                                 !.header_offset = z.start_dir]
         IN IF _writecheck(z, zi) # "none" THEN Raise(z, _writecheck(z, zi))
            ELSE [z EXCEPT !._didModify = TRUE,
                           !.storage = WriteAt(z.storage, zi.header_offset,
                                               <<FileHeader(zi)>>),
                           !.infos = dict_set(z.infos, id, zi),
                           !.handle = id,
                           !._writing = TRUE]

\* _ZipWriteFile.write(payload) then _ZipWriteFile.close(): the payload
\* follows the header, the header is rewritten with the sizes, and the
\* member enters the listing and the name index
_ZipWriteFile_close(z, payload) ==
    LET id == z.handle
        zi == [z.infos[id] EXCEPT !.file_size = Len(payload)]
        end == zi.header_offset + 1 + Len(payload)
    IN [z EXCEPT !.storage = WriteAt(z.storage, zi.header_offset,
                                     <<FileHeader(zi)>> \o DataCells(payload)),
                 !.start_dir = end,
                 !.infos = dict_set(z.infos, id, zi),
                 !.filelist = Append(z.filelist, id),
                 !.NameToInfo = dict_set(z.NameToInfo, zi.filename, id),
                 !.handle = 0,
                 !._writing = FALSE]

\* ZipFile.writestr(zinfo, payload)
writestr(z, id, zinfo, payload) ==
    IF z.fp = "None" THEN Raise(z, "ValueError:closed")
    ELSE IF z._writing THEN Raise(z, "ValueError:writing")
    ELSE LET z1 == _open_to_write(z, id,
                       [zinfo EXCEPT !.file_size = Len(payload)])
         IN IF z1.exc # "none" THEN z1 ELSE _ZipWriteFile_close(z1, payload)

\* ZipInfo(path, date): the fields this model keeps
ZipInfo(path) ==
    [filename |-> path, header_offset |-> 0, file_size |-> 0,
     external_attr |-> <<0, 0>>, flag_bits |-> 0, compress_type |-> 0]

\* zipfile2.py:47-50: the ZipInfo add_file builds
new_info(path, m) ==
    [ZipInfo(path) EXCEPT !.compress_type = 8,
                          !.external_attr = external_attr_of(m),
                          !.flag_bits = 2048]

\* zipfile2.py:39-52
add_file(z, path, payload, m) ==
    writestr(z, NewId(z.infos), new_info(path, m), payload)

\* ZipFile.open(zinfo, "w"): opens a writing handle
open_w(z, zinfo) ==
    IF z.fp = "None" THEN Raise(z, "ValueError:closed")
    ELSE _open_to_write(z, NewId(z.infos), zinfo)

---------------------------------------------------------------------------
(* Closing *)

\* ZipFile._write_end_record(): the central directory in listing order,
\* then the end record, written at the current position (start_dir)
super_write_end_record(s, fl, inf, sd) ==
    WriteAt(s, sd, [i \in 1..Len(fl) |-> CentDir(inf[fl[i]])]
                   \o <<<<"eocd", sd, Len(fl)>>>>)

\* fp.truncate() at the position after the end record
truncate(s, pos) == SubSeq(s, 1, Min(pos, Len(s)))

\* _write_end_record without the truncation
write_end_record_no_truncate(s, fl, inf, sd) ==
    super_write_end_record(s, fl, inf, sd)

\* zipfile2.py:127-131
_write_end_record(s, fl, inf, sd) ==
    truncate(super_write_end_record(s, fl, inf, sd), sd + Len(fl) + 1)

\* close() raising on a container that is already closed
close_strict(z) ==
    IF z.fp = "None" THEN Raise(z, "ValueError:closed")
    ELSE IF z._writing THEN Raise(z, "ValueError:writing")
    ELSE [z EXCEPT !.fp = "None",
                   !.storage =
                       IF z.mode \in {"w", "x", "a"} /\ z._didModify
                       THEN _write_end_record(z.storage, z.filelist, z.infos,
                                              z.start_dir)
                       ELSE z.storage]

\* ZipFile.close()
close(z) ==
    IF z.fp = "None" THEN z
    ELSE IF z._writing THEN Raise(z, "ValueError:writing")
    ELSE [z EXCEPT !.fp = "None",
                   !.storage =
                       IF z.mode \in {"w", "x", "a"} /\ z._didModify
                       THEN _write_end_record(z.storage, z.filelist, z.infos,
                                              z.start_dir)
                       ELSE z.storage]

---------------------------------------------------------------------------
(* Opening and reading *)

\* zipfile._EndRecData(fp): offset of the last end record, -1 if none
_EndRecData(s) ==
    LET at == {i \in 1..Len(s) : IsCell(s[i], "eocd")}
    IN IF at = {} THEN -1
       ELSE (CHOOSE i \in at : \A j \in at : j <= i) - 1

\* the loop of ZipFile._RealGetContents over the directory bytes: the
\* ZipInfo records read before the first bad entry, and whether one was bad
RECURSIVE read_centdir(_, _, _)
read_centdir(cells, k, concat) ==
    IF k > Len(cells) THEN [list |-> <<>>, bad |-> FALSE]
    ELSE IF ~IsCell(cells[k], "cd") THEN [list |-> <<>>, bad |-> TRUE]
    ELSE LET c == cells[k]
             x == [ZipInfo(c[2]) EXCEPT !.header_offset = c[3] + concat,
                                        !.file_size = c[4],
                                        !.external_attr = c[5],
                                        !.compress_type = 8]
             rest == read_centdir(cells, k + 1, concat)
         IN [list |-> <<x>> \o rest.list, bad |-> rest.bad]

\* ZipFile._RealGetContents()
_RealGetContents(s) ==
    LET loc == _EndRecData(s) IN
    IF loc < 0 THEN [exc |-> "BadZipFile", start_dir |-> 0, list |-> <<>>]
    ELSE LET endrec == s[loc + 1]
             offset_cd == endrec[2]
             size_cd == endrec[3]
             concat == loc - size_cd - offset_cd
             sd == offset_cd + concat
         IN IF sd < 0
            THEN [exc |-> "BadZipFile", start_dir |-> sd, list |-> <<>>]
            ELSE LET r == read_centdir(ReadAt(s, sd, size_cd), 1, concat)
                 IN [exc |-> IF r.bad THEN "BadZipFile" ELSE "none",
                     start_dir |-> sd, list |-> r.list]

\* NameToInfo after appending the records in order: the last one wins
index_of(list) ==
    [n \in {list[i].filename : i \in 1..Len(list)} |->
        CHOOSE i \in 1..Len(list) :
            /\ list[i].filename = n
            /\ \A j \in (i + 1)..Len(list) : list[j].filename # n]

\* ZipFile.__init__(file, mode) on existing storage s, mode "r" or "a"
ZipFile_init(s, m) ==
    LET r == _RealGetContents(s)
        z == [mode |-> m, fp |-> "open", _writing |-> FALSE,
              _didModify |-> FALSE,
              filelist |-> [i \in 1..Len(r.list) |-> i],
              infos |-> [i \in 1..Len(r.list) |-> r.list[i]],
              NameToInfo |-> index_of(r.list),
              start_dir |-> r.start_dir, storage |-> s, handle |-> 0,
              exc |-> "none"]
    IN IF r.exc = "none" THEN z
       ELSE IF m = "a"
       THEN [z EXCEPT !._didModify = TRUE, !.start_dir = Len(s)]
       ELSE [z EXCEPT !.fp = "None", !.exc = r.exc]

\* ZipFile.read(zinfo): <<TRUE, payload>>, or <<FALSE, <<>>>> for BadZipFile
read(s, zi) ==
    LET o == zi.header_offset
        body == ReadAt(s, o + 1, zi.file_size)
    IN IF o + 1 > Len(s) \/ ~IsCell(s[o + 1], "lfh") THEN <<FALSE, <<>>>>
       ELSE IF s[o + 1][2] # zi.filename THEN <<FALSE, <<>>>>
       ELSE IF Len(body) # zi.file_size
               \/ \E i \in 1..Len(body) : ~IsCell(body[i], "data")
           THEN <<FALSE, <<>>>>
       ELSE <<TRUE, [i \in 1..Len(body) |-> body[i][2]]>>

---------------------------------------------------------------------------
(* Initial archives: the first k of these members, laid out in this        *)
(* physical order, with the central directory in any order (an archive     *)
(* made by another tool need not list its members in physical order).      *)

InitMembers ==
    <<[filename |-> <<"a">>, payload |-> <<1>>],
      [filename |-> <<"b">>, payload |-> <<>>]>>

InitCounts == 0..Len(InitMembers)

Orders(k) ==
    {p \in [1..k -> 1..k] : \A i, j \in 1..k : p[i] = p[j] => i = j}

RECURSIVE InitOffset(_)
InitOffset(i) ==
    IF i = 1 THEN 0
    ELSE InitOffset(i - 1) + 1 + Len(InitMembers[i - 1].payload)

InitInfo(i) ==
    [ZipInfo(InitMembers[i].filename) EXCEPT
        !.header_offset = InitOffset(i),
        !.file_size = Len(InitMembers[i].payload),
        !.external_attr = external_attr_of(420),
        !.compress_type = 8]

RECURSIVE InitEntries(_)
InitEntries(k) ==
    IF k = 0 THEN <<>>
    ELSE InitEntries(k - 1) \o <<FileHeader(InitInfo(k))>>
         \o DataCells(InitMembers[k].payload)

InitArchive(k, p) ==
    InitEntries(k) \o [i \in 1..k |-> CentDir(InitInfo(p[i]))]
    \o <<<<"eocd", Len(InitEntries(k)), k>>>>

\* What is recorded of a call: the operation, the exception it raised and
\* which case of the operation it was
Call(op, z, note) == [op |-> op, exc |-> z.exc, note |-> note]

Install(z) ==
    /\ mode' = z.mode
    /\ fp' = z.fp
    /\ _writing' = z._writing
    /\ _didModify' = z._didModify
    /\ filelist' = z.filelist
    /\ infos' = z.infos
    /\ NameToInfo' = z.NameToInfo
    /\ start_dir' = z.start_dir
    /\ storage' = z.storage
    /\ handle' = z.handle

Init ==
    \E k \in InitCounts : \E p \in Orders(k) : \E m \in {"r", "a"} :
    \E fresh \in BOOLEAN :
        LET s == IF fresh THEN <<>> ELSE InitArchive(k, p)
            z == ZipFile_init(s, m)
        IN /\ fresh => (k = 0 /\ m = "a")
           /\ mode = z.mode
           /\ fp = z.fp
           /\ _writing = z._writing
           /\ _didModify = z._didModify
           /\ filelist = z.filelist
           /\ infos = z.infos
           /\ NameToInfo = z.NameToInfo
           /\ start_dir = z.start_dir
           /\ storage = z.storage
           /\ handle = z.handle
           /\ data = [i \in 1..Len(z.filelist) |->
                         IF fresh THEN <<>> ELSE InitMembers[p[i]].payload]
           /\ nadds = 0
           /\ dirty = FALSE
           /\ last = [op |-> "open", exc |-> "none", note |-> "init"]
           /\ ReceiptIdle
           /\ UpdaterIdle
           /\ DownloaderIdle
           /\ BundlerIdle
           /\ PythonIdle
           /\ RunIdle

---------------------------------------------------------------------------
(* Actions: one per call on the container *)

Listed == Range(filelist)

\* the member physically last in the listing
PhysLast(id) ==
    \A j \in Listed : infos[j].header_offset <= infos[id].header_offset

AddFile(path, payload, m) ==
    LET z == add_file(Container, path, payload, m) IN
    /\ z.exc = "none" => nadds < MaxAdds
    /\ Install(z)
    /\ data' = IF z.exc = "none"
               THEN dict_set(data, NewId(infos), payload) ELSE data
    /\ nadds' = IF z.exc = "none" THEN nadds + 1 ELSE nadds
    /\ dirty' = dirty
    /\ last' = Call("add_file", z,
                    IF path \in DOMAIN NameToInfo THEN "duplicate" ELSE "new")
    /\ UNCHANGED NotArchive

\* which case a removal was: the name was not found, nothing matched, one member removed that was
\* physically last, one member removed and others shifted (the listing in
\* physical order or not), several removed
RemovalCase(z) ==
    LET gone == Listed \ Range(z.filelist) IN
    IF z.exc = "KeyError" /\ gone = {} THEN "absent"
    ELSE IF z.exc # "none" THEN "failed"
    ELSE IF gone = {} THEN "zero"
    ELSE IF Cardinality(gone) > 1 THEN "several"
    ELSE IF \E id \in gone : PhysLast(id) THEN "last"
    ELSE IF sorted_by_header_offset(filelist, infos) # filelist
        THEN "shift_unsorted"
    ELSE "shift"

Removal(op, z) ==
    /\ Install(z)
    /\ data' = [i \in DOMAIN z.infos |-> data[i]]
    /\ nadds' = nadds
    /\ dirty' = (dirty \/ Len(z.filelist) < Len(filelist))
    /\ last' = Call(op, z, RemovalCase(z))
    /\ UNCHANGED NotArchive

Remove(pat) == Removal("remove", remove(Container, pat))

RemoveInfo(id) ==
    /\ id \in Listed
    /\ Removal("remove_info", remove_info(Container, id))

OpenWriter(name) ==
    LET z == open_w(Container, new_info(name, DefaultMode)) IN
    /\ z.exc = "none" => nadds < MaxAdds
    /\ Install(z)
    /\ data' = IF z.exc = "none"
               THEN dict_set(data, NewId(infos), <<>>) ELSE data
    /\ UNCHANGED <<nadds, dirty>>
    /\ last' = Call("open_w", z, "handle")
    /\ UNCHANGED NotArchive

CloseWriter(payload) ==
    /\ _writing
    /\ Install(_ZipWriteFile_close(Container, payload))
    /\ data' = dict_set(data, handle, payload)
    /\ nadds' = nadds + 1
    /\ dirty' = dirty
    /\ last' = Call("close_w", Container, "handle")
    /\ UNCHANGED NotArchive

Close ==
    LET z == close(Container) IN
    /\ Install(z)
    /\ UNCHANGED <<data, nadds, dirty>>
    /\ last' = Call("close", z, IF fp = "None" THEN "again" ELSE "first")
    /\ UNCHANGED NotArchive

\* A closed container's storage is opened again by a new ZipFile2 object.
\* In mode "r" a constructor that raises leaves no object: nothing changes.
Reopen(m) ==
    LET z == ZipFile_init(storage, m) IN
    /\ fp = "None"
    /\ IF z.exc = "none"
       THEN /\ Install(z)
            /\ data' = [i \in DOMAIN z.infos |-> read(z.storage, z.infos[i])[2]]
            /\ dirty' = FALSE
       ELSE UNCHANGED <<mode, fp, _writing, _didModify, filelist, infos,
                        NameToInfo, start_dir, storage, handle, data, dirty>>
    /\ nadds' = nadds
    /\ last' = Call(IF m = "r" THEN "open_r" ELSE "open_a", z,
                    IF dirty THEN "dirty" ELSE "clean")
    /\ UNCHANGED NotArchive

Next ==
    \/ \E path \in Names, payload \in Payloads, m \in Modes :
           AddFile(path, payload, m)
    \/ \E pat \in Patterns : Remove(pat)
    \/ \E id \in Listed : RemoveInfo(id)
    \/ \E name \in Names : OpenWriter(name)
    \/ \E payload \in Payloads : CloseWriter(payload)
    \/ Close
    \/ \E m \in ReopenModes : Reopen(m)

Spec == Init /\ [][Next]_vars

---------------------------------------------------------------------------
(* Vocabulary of the properties *)

ContainerVars ==
    <<mode, fp, _writing, _didModify, filelist, infos, NameToInfo,
      start_dir, storage, handle>>

\* open for append with no writing handle: remove() and add_file() proceed
Usable == mode = "a" /\ fp = "open" /\ ~_writing

ListedNames == {infos[id].filename : id \in Listed}

Matches(pat) == {id \in Listed : fnmatch(infos[id].filename, pat)}

RemovalStep ==
    \/ \E pat \in Patterns : Remove(pat)
    \/ \E id \in Listed : RemoveInfo(id)

\* the members a removal step dropped from the listing
Gone == Listed \ Range(filelist')

\* the physical span of a listed member: from its header offset to the next
\* physical member's header offset, or to the directory start
Span(id) ==
    LET above == {infos[j].header_offset : j \in
                     {k \in Listed :
                         infos[k].header_offset > infos[id].header_offset}}
    IN (IF above = {} THEN start_dir
        ELSE CHOOSE o \in above : \A q \in above : o <= q)
       - infos[id].header_offset

\* what the listing promises: names and the payloads handed in
Expected ==
    [i \in 1..Len(filelist) |->
        <<infos[filelist[i]].filename, <<TRUE, data[filelist[i]]>>>>]

\* what the storage holds for the listing
ReadBack ==
    [i \in 1..Len(filelist) |->
        <<infos[filelist[i]].filename, read(storage, infos[filelist[i]])>>]

---------------------------------------------------------------------------
C2_GlobRemovesAll ==
    [][\A pat \in Globs :
          (Remove(pat) /\ last'.exc = "none") =>
              \A i \in 1..Len(filelist') :
                  ~fnmatch(infos'[filelist'[i]].filename, pat)]_vars

(* C3: idempotent removal.  remove(pattern) with a glob that matches no    *)
(* member returns without error and leaves the listing, the name index,    *)
(* every header offset, the directory start and the storage as they were.  *)
C3_ZeroMatchNoOp ==
    [][\A pat \in Globs :
          (Remove(pat) /\ Usable /\ Matches(pat) = {}) =>
              /\ last'.exc = "none"
              /\ UNCHANGED <<filelist, infos, NameToInfo, start_dir, storage>>
      ]_vars

C3_Witness ==
    /\ last.op = "remove" /\ last.exc = "none" /\ last.note = "zero"
    /\ filelist # <<>>

(* C4: offset invariant.  When one member of span S is removed, every      *)
(* member physically after it has its header offset reduced by exactly S   *)
(* and the directory start is reduced by exactly S, whatever the order of  *)
(* the listing.                                                            *)
C4_OffsetInvariant ==
    [][\A id \in Listed :
          (RemovalStep /\ last'.exc = "none" /\ Gone = {id}) =>
              /\ \A j \in Listed :
                     infos[j].header_offset > infos[id].header_offset =>
                         infos'[j].header_offset =
                             infos[j].header_offset - Span(id)
              /\ start_dir' = start_dir - Span(id)]_vars

\* one member was removed from before others, from a listing that was not
\* in physical order
C4_Witness ==
    /\ last.exc = "none" /\ last.note = "shift_unsorted"
    /\ filelist # <<>>

(* C5: boundary.  Removing the physically last member writes nothing to    *)
(* the storage and changes no other member's header offset: the directory  *)
(* start decreases by that member's span, and the member leaves the        *)
(* listing and the name index.                                             *)
C5_LastMemberBoundary ==
    [][\A id \in Listed :
          (RemovalStep /\ last'.exc = "none" /\ Gone = {id} /\ PhysLast(id)) =>
              /\ storage' = storage
              /\ \A j \in Listed \ {id} : infos'[j] = infos[j]
              /\ start_dir' = start_dir - Span(id)
              /\ start_dir' = infos[id].header_offset
              /\ id \notin Range(filelist')
              /\ infos[id].filename \notin DOMAIN NameToInfo']_vars

C5_Witness ==
    /\ last.exc = "none" /\ last.note = "last"
    /\ filelist # <<>>

C7_AbsentNameFails ==
    [][\A name \in Names \cup {Absent} :
          (Remove(name) /\ Usable /\ name \notin ListedNames) =>
              /\ last'.exc = "KeyError"
              /\ UNCHANGED <<filelist, infos, NameToInfo, start_dir, storage>>
      ]_vars

C7_Witness ==
    /\ last.op = "remove" /\ last.exc = "KeyError" /\ last.note = "absent"
    /\ filelist # <<>>
    /\ (Names \cup {Absent}) \ ListedNames # {}

(* C8: remove() fails and changes nothing when the mode is not append, or  *)
(* the container is closed, or a writing handle is open; the mode is       *)
(* checked first, then closed, then the writing handle.                    *)
C8_RemoveGuards ==
    [][(RemovalStep /\ ~Usable) =>
          /\ last'.exc = (IF mode # "a" THEN "RuntimeError"
                          ELSE IF fp = "None" THEN "ValueError:closed"
                          ELSE "ValueError:writing")
          /\ UNCHANGED ContainerVars]_vars

\* a closed container whose mode is not append: the mode error is raised
C8_Witness ==
    /\ last.op = "remove" /\ last.exc = "RuntimeError"
    /\ fp = "None" /\ mode # "a"

(* C9 as stated: add_file succeeds whenever the container is open for     *)
(* append, for every name, payload and mode, and fails leaving the         *)
(* container unchanged in read mode or when closed.                        *)
C9_AddAlwaysSucceeds ==
    [][\A path \in Names, payload \in Payloads, m \in Modes :
          AddFile(path, payload, m) =>
              /\ (mode = "a" /\ fp = "open") => last'.exc = "none"
              /\ (mode = "r" \/ fp = "None") =>
                     (last'.exc # "none" /\ UNCHANGED ContainerVars)]_vars

(* C9 amended: add_file succeeds whenever the container is open for append *)
(* and no writing handle is open, for every name (a member's name too),    *)
(* payload and mode: the new member ends the listing and is indexed.  It   *)
(* fails leaving the container unchanged in read mode, when closed, or     *)
(* while a writing handle is open.                                         *)
C9_AddSucceedsUnlessWriting ==
    [][\A path \in Names, payload \in Payloads, m \in Modes :
          AddFile(path, payload, m) =>
              /\ Usable =>
                    /\ last'.exc = "none"
                    /\ Len(filelist') = Len(filelist) + 1
                    /\ SubSeq(filelist', 1, Len(filelist)) = filelist
                    /\ infos'[filelist'[Len(filelist')]].filename = path
                    /\ NameToInfo'[path] = filelist'[Len(filelist')]
                    /\ read(storage', infos'[filelist'[Len(filelist')]])
                           = <<TRUE, payload>>
              /\ ~Usable =>
                     (last'.exc # "none" /\ UNCHANGED ContainerVars)]_vars

\* an add under a name that was already a member
C9_Witness ==
    /\ last.op = "add_file" /\ last.exc = "none" /\ last.note = "duplicate"
    /\ \E i \in 1..(Len(filelist) - 1) :
           infos[filelist[i]].filename
               = infos[filelist[Len(filelist)]].filename

C11_UniqueNames ==
    \A i, j \in 1..Len(filelist) :
        infos[filelist[i]].filename = infos[filelist[j]].filename => i = j

---------------------------------------------------------------------------
(***************************************************************************)
(* The receipt record (src/src/cosmofy/receipt.py).                        *)
(*                                                                         *)
(* A str is a sequence of symbols.  For algo, hash, the URLs and version a *)
(* symbol is one character.  A date text is a sequence of tokens, each a   *)
(* pair <<class, value>> standing for a run of characters:                 *)
(*   <<"T", n>>   19 characters "YYYY-MM-DDTHH:MM:SS", wall-clock second n *)
(*   <<"t", 0>>   19 characters of the same shape that are not a date     *)
(*                (month 13)                                               *)
(*   <<".", m>>   7 characters ".ffffff", m microseconds                   *)
(*   <<"+", k>>   the offset "+00:00" (k = 0) or "+00:00:01" (k = 1)       *)
(*   <<"Z", 0>>   the letter Z            <<"\n", 0>>   a line feed         *)
(* $schema and kind are only compared for equality and stay strings.       *)
(* A dict is the sequence of its <<key, value>> pairs in insertion order.  *)
(* A datetime is [wall, micro, tzinfo]: tzinfo is <<>> (naive) or <<k>>,   *)
(* an offset of k seconds from UTC.                                        *)
(***************************************************************************)
RECEIPT_SCHEMA ==
    "https://raw.githubusercontent.com/metaist/cosmofy/0.1.0/cosmofy.schema.json"

RECEIPT_KIND == <<"embedded", "published">>

DEFAULT_HASH == <<"s", "h", "a", "2", "5", "6">>

\* dict: keys in order, membership, lookup, removal of a key
dict_keys(d) == [i \in 1..Len(d) |-> d[i][1]]

dict_has(d, k) == \E i \in 1..Len(d) : d[i][1] = k

dict_get(d, k) == d[CHOOSE i \in 1..Len(d) : d[i][1] = k][2]

dict_pop(d, k) == SelectSeq(d, LAMBDA p : p[1] # k)

\* re.match("^[chars]+$", v): a non-empty run of chars; `$` also matches
\* just before a line feed that ends the string
re_run(v, chars) ==
    LET body == IF Len(v) > 0 /\ v[Len(v)] = "\n"
                THEN SubSeq(v, 1, Len(v) - 1) ELSE v
    IN Len(body) > 0 /\ \A i \in 1..Len(body) : body[i] \in chars

\* RECEIPT_DATE: ^\d{4}-\d{2}-\d{2}T\d{2}:\d{2}:\d{2}Z$
RECEIPT_DATE(v) ==
    /\ Len(v) \in {2, 3}
    /\ v[1][1] \in {"T", "t"}
    /\ v[2] = <<"Z", 0>>
    /\ Len(v) = 3 => v[3] = <<"\n", 0>>

\* RECEIPT_ALGO: ^[a-z0-9-_]+$
RECEIPT_ALGO(v) ==
    re_run(v, {"a", "f", "g", "h", "s", "0", "1", "2", "5", "6", "-", "_"})

\* RECEIPT_HASH: ^[a-f0-9]+$
RECEIPT_HASH(v) == re_run(v, {"a", "f", "0", "1", "2", "5", "6"})

\* bool(v.strip()): some character is not whitespace
strip(v) == SelectSeq(v, LAMBDA c : c \notin {" ", "\n"})

\* how many characters a token of a date text stands for
width(tok) ==
    IF tok[1] \in {"T", "t"} THEN 19
    ELSE IF tok[1] = "." THEN 7
    ELSE IF tok[1] = "+" THEN (IF tok[2] = 0 THEN 6 ELSE 9)
    ELSE 1

\* s[:n] for a text whose first n characters end at a token boundary
RECURSIVE slice(_, _)
slice(s, n) ==
    IF s = <<>> \/ width(Head(s)) > n THEN <<>>
    ELSE <<Head(s)>> \o slice(Tail(s), n - width(Head(s)))

\* datetime.isoformat()
isoformat(dt) ==
    <<<<"T", dt.wall>>>>
    \o (IF dt.micro # 0 THEN <<<<".", dt.micro>>>> ELSE <<>>)
    \o (IF dt.tzinfo # <<>> THEN <<<<"+", dt.tzinfo[1]>>>> ELSE <<>>)

\* value.replace("Z", "+00:00")
replace_Z(v) ==
    [i \in 1..Len(v) |-> IF v[i] = <<"Z", 0>> THEN <<"+", 0>> ELSE v[i]]

\* datetime.fromisoformat(v): <<ok, datetime>>; not ok is a ValueError
fromisoformat(v) ==
    LET frac == Len(v) >= 2 /\ v[2][1] = "."
        rest == SubSeq(v, IF frac THEN 3 ELSE 2, Len(v))
        ok == /\ Len(v) >= 1 /\ v[1][1] = "T"
              /\ rest = <<>> \/ (Len(rest) = 1 /\ rest[1][1] = "+")
    IN IF ok
       THEN <<TRUE, [wall |-> v[1][2],
                     micro |-> IF frac THEN v[2][2] ELSE 0,
                     tzinfo |-> IF rest = <<>> THEN <<>> ELSE <<rest[1][2]>>]>>
       ELSE <<FALSE, <<>>>>

\* datetime.__eq__: aware datetimes are equal when they are the same
\* instant, naive ones when they read the same; a naive one never equals
\* an aware one
datetime_eq(a, b) ==
    IF (a.tzinfo = <<>>) # (b.tzinfo = <<>>) THEN FALSE
    ELSE IF a.tzinfo = <<>> THEN a.wall = b.wall /\ a.micro = b.micro
    ELSE a.wall - a.tzinfo[1] = b.wall - b.tzinfo[1] /\ a.micro = b.micro

\* >= in place of >
datetime_ge(a, b) ==
    LET ia == IF a.tzinfo = <<>> THEN a.wall ELSE a.wall - a.tzinfo[1]
        ib == IF b.tzinfo = <<>> THEN b.wall ELSE b.wall - b.tzinfo[1]
    IN IF (a.tzinfo = <<>>) # (b.tzinfo = <<>>) THEN "TypeError"
       ELSE IF ia > ib \/ (ia = ib /\ a.micro >= b.micro) THEN "True"
       ELSE "False"

\* datetime.__gt__: "TypeError" between a naive and an aware datetime
datetime_gt(a, b) ==
    LET ia == IF a.tzinfo = <<>> THEN a.wall ELSE a.wall - a.tzinfo[1]
        ib == IF b.tzinfo = <<>> THEN b.wall ELSE b.wall - b.tzinfo[1]
    IN IF (a.tzinfo = <<>>) # (b.tzinfo = <<>>) THEN "TypeError"
       ELSE IF ia > ib \/ (ia = ib /\ a.micro > b.micro) THEN "True"
       ELSE "False"

\* the keys of `rules` in find_issues, in the order the dict literal lists
\* them (also the order asdict emits them)
rule_names ==
    <<"$schema", "kind", "date", "algo", "hash",
      "receipt_url", "release_url", "version">>

\* rules[name](v)
rules(name, v) ==
    IF name = "$schema" THEN v = RECEIPT_SCHEMA
    ELSE IF name = "kind" THEN v \in Range(RECEIPT_KIND)
    ELSE IF name = "date" THEN RECEIPT_DATE(v)
    ELSE IF name = "algo" THEN RECEIPT_ALGO(v)
    ELSE IF name = "hash" THEN RECEIPT_HASH(v)
    ELSE strip(v) # <<>>

\* embedded[name](v): isinstance(v, str); every value of the model is a str
embedded(name, v) == TRUE

\* find_issues without the relaxation for embedded receipts
rule_strict(name, kind, v) == rules(name, v)

\* the rule find_issues applies to a present field (lines 129-131)
rule_for(name, kind, v) ==
    IF name \in {"hash", "version"} /\ kind = "embedded"
    THEN embedded(name, v) ELSE rules(name, v)

\* Receipt.find_issues(data)
find_issues(d) ==
    LET kind == IF dict_has(d, "kind") THEN dict_get(d, "kind")
                ELSE "embedded"
    IN [missing |-> SelectSeq(rule_names, LAMBDA n : ~dict_has(d, n)),
        unknown |-> SelectSeq(dict_keys(d),
                              LAMBDA n : n \notin Range(rule_names)),
        malformed |-> SelectSeq(rule_names,
                          LAMBDA n : /\ dict_has(d, n)
                                     /\ ~rule_for(n, kind, dict_get(d, n)))]

\* sum((v for v in issues.values()), [])
all_issues(issues) == issues.missing \o issues.unknown \o issues.malformed

\* Receipt.asdict()
asdict(r) ==
    << <<"$schema", r.schema>>,
       <<"kind", r.kind>>,
       <<"date", slice(isoformat(r.date), 19) \o <<<<"Z", 0>>>> >>,
       <<"algo", r.algo>>,
       <<"hash", r.hash>>,
       <<"receipt_url", r.receipt_url>>,
       <<"release_url", r.release_url>>,
       <<"version", r.version>> >>

\* Receipt.is_valid()
is_valid(r) == all_issues(find_issues(asdict(r))) = <<>>

\* what a receipt call hands back: the exception it raised, its value
\* (<<>> when it raised) and its argument as the call left it
Outcome(exc, val, arg) == [exc |-> exc, val |-> val, arg |-> arg]

\* from_dict popping from data itself instead of a copy
from_dict_in_place(d) ==
    LET issues == find_issues(d)
        date == fromisoformat(replace_Z(dict_get(d, "date")))
        left == dict_pop(dict_pop(dict_pop(d, "$schema"), "date"), "kind")
    IN IF all_issues(issues) # <<>>
       THEN Outcome("ValueError", <<issues>>, d)
       ELSE IF ~date[1]
            THEN Outcome("ValueError", <<>>,
                         dict_pop(dict_pop(d, "$schema"), "date"))
       ELSE Outcome("none",
                    <<[schema |-> dict_get(d, "$schema"),
                       kind |-> dict_get(d, "kind"), date |-> date[2],
                       algo |-> dict_get(left, "algo"),
                       hash |-> dict_get(left, "hash"),
                       receipt_url |-> dict_get(left, "receipt_url"),
                       release_url |-> dict_get(left, "release_url"),
                       version |-> dict_get(left, "version")]>>, left)

\* Receipt.from_dict(data); the pops act on the copy _data
from_dict(d) ==
    LET issues == find_issues(d)
        _data == d
        schema == dict_get(_data, "$schema")
        date == fromisoformat(replace_Z(dict_get(_data, "date")))
        kind == IF dict_get(_data, "kind") = "published"
                THEN "published" ELSE "embedded"
        left == dict_pop(dict_pop(dict_pop(_data, "$schema"), "date"), "kind")
    IN IF all_issues(issues) # <<>>
       THEN Outcome("ValueError", <<issues>>, d)
       ELSE IF ~date[1] THEN Outcome("ValueError", <<>>, d)
       ELSE Outcome("none",
                    <<[schema |-> schema, kind |-> kind, date |-> date[2],
                       algo |-> dict_get(left, "algo"),
                       hash |-> dict_get(left, "hash"),
                       receipt_url |-> dict_get(left, "receipt_url"),
                       release_url |-> dict_get(left, "release_url"),
                       version |-> dict_get(left, "version")]>>, d)

\* the dataclass __eq__: the fields compared in order as a tuple
Receipt_eq(a, b) ==
    /\ a.schema = b.schema /\ a.kind = b.kind
    /\ datetime_eq(a.date, b.date)
    /\ a.algo = b.algo /\ a.hash = b.hash
    /\ a.receipt_url = b.receipt_url /\ a.release_url = b.release_url
    /\ a.version = b.version

\* Receipt.is_newer(other)
is_newer(self, o) == datetime_gt(self.date, o.date)

\* Receipt.update(**values): the receipt as the call leaves it; a date
\* that does not parse raises after the earlier values were assigned
RECURSIVE update(_, _)
update(self, values) ==
    IF values = <<>> THEN Outcome("none", <<self>>, <<>>)
    ELSE LET name == values[1][1]
             value == values[1][2]
             date == fromisoformat(replace_Z(value))
         IN IF name = "date"
            THEN IF date[1]
                 THEN update([self EXCEPT !.date = date[2]], Tail(values))
                 ELSE Outcome("ValueError", <<self>>, <<>>)
            ELSE update([self EXCEPT ![name] = value], Tail(values))

\* the loop of update_from: setattr(self, name, getattr(other, name))
RECURSIVE copy_fields(_, _, _)
copy_fields(self, o, names) ==
    IF names = <<>> THEN self
    ELSE copy_fields([self EXCEPT ![Head(names)] = o[Head(names)]], o,
                     Tail(names))

\* update_from copying the named fields after the keyword values
update_from_copy_last(self, o, names, values) ==
    LET z == update(self, values)
    IN Outcome(z.exc, <<copy_fields(z.val[1], o, names)>>, <<o>>)

\* Receipt.update_from(other, *names, **values); other is another object,
\* which setattr on self does not touch
update_from(self, o, names, values) ==
    LET z == update(copy_fields(self, o, names), values)
    IN Outcome(z.exc, z.val, <<o>>)

---------------------------------------------------------------------------
(* The receipts and dicts the methods are called with *)

\* datetimes: whole-second UTC (as the tests build them), one with
\* microseconds (as the default `now` has), a naive one, and one an offset
\* of a second from UTC that is the same instant as the first
Dates ==
    { [wall |-> 1, micro |-> 0, tzinfo |-> <<0>>],
      [wall |-> 2, micro |-> 0, tzinfo |-> <<0>>],
      [wall |-> 1, micro |-> 1, tzinfo |-> <<0>>],
      [wall |-> 1, micro |-> 0, tzinfo |-> <<>>],
      [wall |-> 2, micro |-> 0, tzinfo |-> <<1>>] }

\* hash, receipt_url, release_url, version: the defaults of the dataclass,
\* an embedded receipt with its URLs, and a complete one
Profiles ==
    { << <<>>, <<>>, <<>>, <<>> >>,
      << <<>>, <<"u">>, <<"v">>, <<>> >>,
      << <<"a", "f", "0">>, <<"u">>, <<"v">>, <<"1">> >> }

\* Receipt(...)
Receipts ==
    { [schema |-> RECEIPT_SCHEMA, kind |-> k, date |-> d,
       algo |-> DEFAULT_HASH, hash |-> p[1], receipt_url |-> p[2],
       release_url |-> p[3], version |-> p[4]] :
      k \in Range(RECEIPT_KIND), d \in Dates, p \in Profiles }

\* the receipts handed in as `other`: complete published ones
Others == {r \in Receipts : r.kind = "published" /\ r.version # <<>>}

\* a dict from one choice per key, <<>> for a key that is left out
dict_of(choices) ==
    LET present == SelectSeq(choices, LAMBDA c : c[2] # <<>>)
    IN [i \in 1..Len(present) |-> <<present[i][1], present[i][2][1]>>]

\* the dicts handed to find_issues and from_dict
Dicts ==
    { dict_of(<< <<"$schema", s>>, <<"kind", k>>, <<"date", d>>,
                 <<"algo", a>>, <<"hash", h>>, <<"receipt_url", u>>,
                 <<"release_url", l>>, <<"version", v>>, <<"foo", x>> >>) :
      s \in {<<>>, <<RECEIPT_SCHEMA>>, <<"other">>},
      k \in {<<>>, <<"embedded">>, <<"published">>, <<"other">>},
      d \in {<<>>, << <<<<"T", 1>>, <<"Z", 0>>>> >>,
             << <<<<"t", 0>>, <<"Z", 0>>>> >>, << <<<<"T", 1>>>> >>},
      a \in {<<DEFAULT_HASH>>, <<<<"S">>>>},
      h \in {<<<<>>>>, <<<<"a", "f", "0">>>>, <<<<"g">>>>, <<<<"a", "\n">>>>},
      u \in {<<>>, <<<<>>>>, <<<<"u">>>>},
      l \in {<<<<>>>>, <<<<"v">>>>},
      v \in {<<<<>>>>, <<<<" ">>>>, <<<<"1">>>>},
      x \in {<<>>, <<<<"b", "a", "r">>>>} }

\* update_from(other, *names, **values): the names copied ...
UpdateNames == {<<>>, <<"date">>, <<"hash", "version">>}

\* ... and the keyword values: none, a canonical date, a value for hash,
\* and a date that does not parse behind a value for algo
UpdateValues ==
    { <<>>,
      << <<"date", <<<<"T", 3>>, <<"Z", 0>>>> >> >>,
      << <<"hash", <<"0">>>> >>,
      << <<"algo", <<"s">>>>, <<"date", <<<<"t", 0>>, <<"Z", 0>>>> >> >> }

\* the archive variables in the specifications that do not use them
ArchiveIdle ==
    /\ mode = "r" /\ fp = "None" /\ _writing = FALSE /\ _didModify = FALSE
    /\ filelist = <<>> /\ infos = <<>> /\ NameToInfo = <<>>
    /\ start_dir = 0 /\ storage = <<>> /\ handle = 0 /\ data = <<>>
    /\ nadds = 0 /\ dirty = FALSE
    /\ last = [op |-> "idle", exc |-> "none", note |-> "idle"]

NotReceipt == <<vars, uvars, dvars, bvars, pvars, nvars>>

ReceiptInit ==
    /\ \/ \E r \in Receipts, o \in Others :
              receipt = <<r>> /\ other = <<o>> /\ record = <<>>
       \/ \E d \in Dicts :
              receipt = <<>> /\ other = <<>> /\ record = <<d>>
    /\ ret = [op |-> "init", exc |-> "none", val |-> <<>>]
    /\ ArchiveIdle
    /\ UpdaterIdle
    /\ DownloaderIdle
    /\ BundlerIdle
    /\ PythonIdle
    /\ RunIdle

Returned(op, exc, val) == [op |-> op, exc |-> exc, val |-> val]

AsDict ==
    /\ receipt # <<>>
    /\ record' = <<asdict(receipt[1])>>
    /\ ret' = Returned("asdict", "none", <<>>)
    /\ UNCHANGED <<receipt, other, NotReceipt>>

IsValid ==
    /\ receipt # <<>>
    /\ ret' = Returned("is_valid", "none", <<is_valid(receipt[1])>>)
    /\ UNCHANGED <<receipt, other, record, NotReceipt>>

FindIssues ==
    /\ record # <<>>
    /\ ret' = Returned("find_issues", "none", <<find_issues(record[1])>>)
    /\ UNCHANGED <<receipt, other, record, NotReceipt>>

FromDict ==
    /\ record # <<>>
    /\ LET z == from_dict(record[1])
       IN /\ ret' = Returned("from_dict", z.exc, z.val)
          /\ record' = <<z.arg>>
    /\ UNCHANGED <<receipt, other, NotReceipt>>

\* r.is_newer(o), o being the other receipt or r itself
IsNewer(who) ==
    /\ receipt # <<>> /\ other # <<>>
    /\ LET z == is_newer(receipt[1],
                         IF who = "self" THEN receipt[1] ELSE other[1])
       IN ret' = IF z = "TypeError" THEN Returned("is_newer", z, <<>>)
                 ELSE Returned("is_newer", "none", <<z = "True">>)
    /\ UNCHANGED <<receipt, other, record, NotReceipt>>

\* fields are merged into a receipt before it is serialized
UpdateFrom(names, values) ==
    /\ receipt # <<>> /\ other # <<>> /\ record = <<>>
    /\ LET z == update_from(receipt[1], other[1], names, values)
       IN /\ receipt' = z.val
          /\ other' = z.arg
          /\ ret' = Returned("update_from", z.exc, <<names, values>>)
    /\ UNCHANGED <<record, NotReceipt>>

ReceiptNext ==
    \/ AsDict
    \/ IsValid
    \/ FindIssues
    \/ FromDict
    \/ \E who \in {"self", "other"} : IsNewer(who)
    \/ \E names \in UpdateNames, values \in UpdateValues :
           UpdateFrom(names, values)

ReceiptSpec == ReceiptInit /\ [][ReceiptNext]_rvars

---------------------------------------------------------------------------
(* Properties of the receipt record *)

\* from_dict is called on what asdict made of the receipt at hand
RoundTrip ==
    /\ FromDict
    /\ receipt # <<>>
    /\ record = <<asdict(receipt[1])>>

(* C12: for every receipt that is_valid() accepts, whatever datetime its   *)
(* date holds, from_dict(asdict(r)) equals r field for field, and asdict() *)
(* emits its keys in the order $schema, kind, date, algo, hash,            *)
(* receipt_url, release_url, version.                                      *)
C12_RoundTrip ==
    [][/\ AsDict =>
              dict_keys(record'[1]) =
                  <<"$schema", "kind", "date", "algo", "hash",
                    "receipt_url", "release_url", "version">>
       /\ (RoundTrip /\ is_valid(receipt[1])) =>
              /\ ret'.exc = "none"
              /\ Receipt_eq(ret'.val[1], receipt[1])]_rvars

\* the kind find_issues goes by
KindOf(d) == IF dict_has(d, "kind") THEN dict_get(d, "kind") ELSE "embedded"

\* an embedded receipt's dict with both URLs the empty string and nothing
\* else wrong
EmbeddedNoUrls(d) ==
    /\ dict_keys(d) = rule_names
    /\ dict_get(d, "$schema") = RECEIPT_SCHEMA
    /\ dict_get(d, "kind") = "embedded"
    /\ RECEIPT_DATE(dict_get(d, "date"))
    /\ RECEIPT_ALGO(dict_get(d, "algo"))
    /\ dict_get(d, "receipt_url") = <<>>
    /\ dict_get(d, "release_url") = <<>>

(* C13: find_issues(data) reports as missing the schema fields absent from *)
(* data, as unknown the keys of data that are not schema fields, as        *)
(* malformed the present schema fields whose value fails its rule; a       *)
(* receipt is valid iff all three are empty; an embedded receipt whose     *)
(* URLs are both the empty string has malformed = receipt_url, release_url *)
(* and nothing missing or unknown.                                         *)
C13_FindIssuesExact ==
    [][/\ FindIssues =>
            LET d == record[1]
                issues == ret'.val[1]
                keys == Range(dict_keys(d))
                fields == Range(rule_names)
            IN /\ Range(issues.missing) = fields \ keys
               /\ Range(issues.unknown) = keys \ fields
               /\ Range(issues.malformed) =
                      {n \in fields \cap keys :
                          ~rule_for(n, KindOf(d), dict_get(d, n))}
               /\ EmbeddedNoUrls(d) =>
                      /\ issues.missing = <<>> /\ issues.unknown = <<>>
                      /\ issues.malformed = <<"receipt_url", "release_url">>
       /\ IsValid =>
            LET issues == find_issues(asdict(receipt[1]))
            IN ret'.val[1] <=> /\ issues.missing = <<>>
                               /\ issues.unknown = <<>>
                               /\ issues.malformed = <<>>]_rvars

\* find_issues has reported on an embedded receipt with empty URLs
C13_Witness ==
    /\ ret.op = "find_issues"
    /\ record # <<>> /\ EmbeddedNoUrls(record[1])
    /\ ret.val[1].malformed = <<"receipt_url", "release_url">>

\* lowercase hexadecimal digits, at least one
LowerHex(v) ==
    /\ Len(v) > 0
    /\ \A i \in 1..Len(v) : v[i] \in {"a", "f", "0", "1", "2", "5", "6"}

\* the dict with another kind
with_kind(d, k) ==
    [i \in 1..Len(d) |-> IF d[i][1] = "kind" THEN <<"kind", k>> ELSE d[i]]

(* C14: hash and version are accepted as any string (the empty one too)    *)
(* only when kind = embedded; for kind = published a hash that is empty or *)
(* not lowercase hex and a blank version are malformed; the rules for      *)
(* $schema, kind, date, algo, receipt_url and release_url give the same    *)
(* verdict for both kinds.                                                 *)
C14_KindDependentRules ==
    [][(FindIssues /\ dict_has(record[1], "kind")) =>
          LET d == record[1]
              kind == dict_get(d, "kind")
              malformed == Range(ret'.val[1].malformed)
              swapped == Range(find_issues(
                             with_kind(d, IF kind = "embedded"
                                          THEN "published"
                                          ELSE "embedded")).malformed)
          IN /\ kind = "embedded" =>
                    "hash" \notin malformed /\ "version" \notin malformed
             /\ (kind = "published" /\ dict_has(d, "hash")) =>
                    ("hash" \in malformed <=> ~LowerHex(dict_get(d, "hash")))
             /\ (kind = "published" /\ dict_has(d, "version")) =>
                    ("version" \in malformed <=>
                         strip(dict_get(d, "version")) = <<>>)
             /\ kind \in Range(RECEIPT_KIND) =>
                    \A n \in {"$schema", "kind", "date", "algo",
                              "receipt_url", "release_url"} :
                        n \in malformed <=> n \in swapped]_rvars

(* C15: from_dict(data) raises an error carrying the missing, unknown and  *)
(* malformed fields whenever find_issues(data) reports any, returns a      *)
(* Receipt only when it reports none, and leaves data as it was.           *)
C15_ValidatesFirst ==
    [][FromDict =>
          LET issues == find_issues(record[1])
          IN /\ all_issues(issues) # <<>> =>
                    (ret'.exc = "ValueError" /\ ret'.val = <<issues>>)
             /\ ret'.exc = "none" =>
                    /\ all_issues(issues) = <<>>
                    /\ Len(ret'.val) = 1
                    /\ ret'.val[1].kind = dict_get(record[1], "kind")
             /\ record' = record]_rvars

\* from_dict has raised on a payload with a malformed field and nothing
\* missing or unknown
C15_Witness ==
    /\ ret.op = "from_dict" /\ ret.exc = "ValueError"
    /\ ret.val # <<>>
    /\ ret.val[1].malformed # <<>>
    /\ ret.val[1].missing = <<>> /\ ret.val[1].unknown = <<>>

\* the point in time of a datetime, and whether two datetimes can be
\* ordered (both aware or both naive)
Instant(t) ==
    <<IF t.tzinfo = <<>> THEN t.wall ELSE t.wall - t.tzinfo[1], t.micro>>

Ordered(t1, t2) == (t1.tzinfo = <<>>) = (t2.tzinfo = <<>>)

Earlier(t1, t2) ==
    /\ Ordered(t1, t2)
    /\ \/ Instant(t1)[1] < Instant(t2)[1]
       \/ Instant(t1)[1] = Instant(t2)[1] /\ Instant(t1)[2] < Instant(t2)[2]

Attributes ==
    {"schema", "kind", "date", "algo", "hash",
     "receipt_url", "release_url", "version"}

\* the datetime a canonical date text YYYY-MM-DDTHH:MM:SSZ stands for
Canonical(text) == [wall |-> text[1][2], micro |-> 0, tzinfo |-> <<0>>]

(* C17: update_from(other, names, overrides) leaves the receipt with each  *)
(* named field equal to other's, each override field equal to the value    *)
(* supplied (a date text parsed into a datetime), the override winning for *)
(* a field that is both, and every other field as it was; other is not     *)
(* modified.                                                               *)
C17_UpdateFromFrame ==
    [][\A names \in UpdateNames, values \in UpdateValues :
          (UpdateFrom(names, values) /\ ret'.exc = "none") =>
              /\ \A f \in Attributes :
                    receipt'[1][f] =
                        IF dict_has(values, f)
                        THEN IF f = "date"
                             THEN Canonical(dict_get(values, f))
                             ELSE dict_get(values, f)
                        ELSE IF f \in Range(names) THEN other[1][f]
                        ELSE receipt[1][f]
              /\ other' = other]_rvars

\* update_from has copied the date and then overridden it
C17_Witness ==
    /\ ret.op = "update_from" /\ ret.exc = "none"
    /\ ret.val[1] = <<"date">> /\ dict_has(ret.val[2], "date")
    /\ receipt[1].date = [wall |-> 3, micro |-> 0, tzinfo |-> <<0>>]
    /\ receipt[1].date # other[1].date

---------------------------------------------------------------------------
(***************************************************************************)
(* The self-updater (src/src/cosmofy/updater.py).                          *)
(*                                                                         *)
(* A URL is a str whose symbols are path segments; what the network        *)
(* answers is a function of the URL (urlopen below), as the tests stub     *)
(* urlopen.  A response body is a sequence of chunks; an artifact's bytes  *)
(* are a sequence of numbers, one per chunk.  A file is [content, mode].   *)
(***************************************************************************)
OldArtifact == [content |-> <<1>>, mode |-> 493]

\* a | b on naturals
RECURSIVE bit_or(_, _)
bit_or(a, b) ==
    IF a = 0 THEN b
    ELSE IF b = 0 THEN a
    ELSE 2 * bit_or(a \div 2, b \div 2)
         + (IF a % 2 = 1 \/ b % 2 = 1 THEN 1 ELSE 0)

\* hashlib.new(algo, ...).hexdigest() of the bytes the digest was updated
\* with: a lowercase hex text, different for different bytes
hexdigest(bytes) ==
    [i \in 1..Len(bytes) |->
        IF bytes[i] = 2 THEN "a" ELSE IF bytes[i] = 3 THEN "f" ELSE "0"]

\* the receipt published at a receipt URL <<host, kind, release>>
published(url) ==
    << <<"$schema", RECEIPT_SCHEMA>>,
       <<"kind", "published">>,
       <<"date", << <<"T", IF url[2] = "later" THEN 2
                           ELSE IF url[2] = "same" THEN 1 ELSE 0>>,
                    <<"Z", 0>> >> >>,
       <<"algo", DEFAULT_HASH>>,
       <<"hash", hexdigest(<<2, 3>>)>>,
       <<"receipt_url", url>>,
       <<"release_url", <<"v", url[3]>> >>,
       <<"version", <<"2">> >> >>

\* urlopen(url): [status, code, body]; status "HTTPError" carries a code,
\* "URLError" (no connection) carries none
urlopen(url) ==
    LET kind == url[2]
    IN IF kind = "404"
       THEN [status |-> "HTTPError", code |-> 404, body |-> <<>>]
       ELSE IF kind = "down"
       THEN [status |-> "URLError", code |-> 0, body |-> <<>>]
       ELSE IF url[1] \in {"u", "U"}
       THEN [status |-> "ok", code |-> 200,
             body |-> IF kind = "invalid" THEN <<>> ELSE published(url)]
       ELSE [status |-> "ok", code |-> 200,
             body |-> IF kind = "good" THEN <<2, 3>> ELSE <<2, 4>>]

\* the environment left unread
ENV_ignored(env, name, default) == default

\* ENV.get(name, default)
ENV_get(env, name, default) ==
    IF dict_has(env, name) THEN dict_get(env, name) ELSE default

\* the mode left as it is
not_executable(m) == m

\* no update only when the published receipt is older
no_update_if_older(r, l) == is_newer(l, r) = "True"

\* the file left in place
unlink_skipped(file) == file

\* an update whatever the dates are
no_update_never(r, l) == FALSE

\* no update only when the dates differ
no_update_if_differ(r, l) == ~datetime_eq(r.date, l.date)

\* not remote.is_newer(local)
no_update(r, l) == is_newer(r, l) # "True"

\* st_mode | stat.S_IXUSR | stat.S_IXGRP | stat.S_IXOTH
executable(m) == bit_or(bit_or(bit_or(m, 64), 8), 1)

\* temp.unlink(missing_ok=True)
unlink(file) == <<>>

\* the receipt URLs and what the release behind a newer receipt does
ReceiptUrls ==
    { <<"u", k, "good">> : k \in {"same", "earlier", "404", "down", "invalid"} }
    \cup { <<"u", "later", v>> : v \in {"good", "corrupt", "404", "down"} }

\* the embedded receipt as the bundler stored it, and one that lacks its
\* URLs
Stored ==
    { << <<"$schema", RECEIPT_SCHEMA>>, <<"kind", "embedded">>,
         <<"date", << <<"T", 1>>, <<"Z", 0>> >> >>,
         <<"algo", DEFAULT_HASH>>, <<"hash", <<>> >>,
         <<"receipt_url", u>>, <<"release_url", <<"e", "good">> >>,
         <<"version", <<>> >> >> : u \in ReceiptUrls \cup {<<>>} }

\* os.environ: nothing set, or the overrides
Environments ==
    { dict_of(<< <<"RECEIPT_URL", r>>, <<"RELEASE_URL", l>> >>) :
      r \in {<<>>, <<<<"U", "later", "good">>>>, <<<<"U", "404", "good">>>>},
      l \in {<<>>, <<<<"V", "good">>>>, <<<<"V", "404">>>>} }

NotUpdater == <<vars, rvars, dvars, bvars, pvars, nvars>>

UpdaterInit ==
    /\ pc = "read_receipt"
    /\ live = OldArtifact
    /\ temp = <<>>
    /\ stored \in Stored
    /\ ENV \in Environments
    /\ same_fs \in BOOLEAN
    /\ local = <<>> /\ remote = <<>> /\ stream = <<>> /\ digest = <<>>
    /\ received = <<>> /\ events = <<>>
    /\ result = "running"
    /\ ArchiveIdle
    /\ ReceiptIdle
    /\ DownloaderIdle
    /\ BundlerIdle
    /\ PythonIdle
    /\ RunIdle

\* self_update returns a code or lets an exception escape
Finish(how) == pc' = "done" /\ result' = how

\* lines 325-327: the embedded receipt is read and parsed; an error escapes
ReadReceipt ==
    /\ pc = "read_receipt"
    /\ LET z == from_dict(stored)
       IN IF z.exc = "none"
          THEN local' = z.val /\ pc' = "download_receipt"
               /\ result' = result
          ELSE local' = local /\ Finish("raise ValueError")
    /\ UNCHANGED <<live, temp, stored, ENV, same_fs, remote, stream, digest,
                   received, events, NotUpdater>>

\* lines 329-335 and download_receipt: an HTTPError is caught and the
\* receipt is None; any other error escapes
DownloadReceipt ==
    /\ pc = "download_receipt"
    /\ LET url == ENV_get(ENV, "RECEIPT_URL", local[1].receipt_url)
           response == urlopen(url)
           z == from_dict(response.body)
       IN /\ events' = Append(events, <<"GET", url>>)
          /\ IF response.status = "HTTPError"
             THEN remote' = remote /\ Finish("return 1")
             ELSE IF response.status = "URLError"
             THEN remote' = remote /\ Finish("raise URLError")
             ELSE IF z.exc # "none"
             THEN remote' = remote /\ Finish("raise ValueError")
             ELSE remote' = z.val /\ pc' = "compare" /\ result' = result
    /\ UNCHANGED <<live, temp, stored, ENV, same_fs, local, stream, digest,
                   received, NotUpdater>>

\* lines 337-340
Compare ==
    /\ pc = "compare"
    /\ IF no_update(remote[1], local[1])
       THEN Finish("return 0")
       ELSE pc' = "make_temp" /\ result' = result
    /\ UNCHANGED <<live, temp, stored, ENV, same_fs, local, remote, stream,
                   digest, received, events, NotUpdater>>

\* download_release, line 290: tempfile.NamedTemporaryFile(delete=False)
MakeTemp ==
    /\ pc = "make_temp"
    /\ temp' = <<[content |-> <<>>, mode |-> 384]>>
    /\ events' = Append(events, <<"mkstemp">>)
    /\ pc' = "open_release"
    /\ UNCHANGED <<live, stored, ENV, same_fs, local, remote, stream, digest,
                   received, result, NotUpdater>>

\* download_and_hash, lines 273-277: the release URL (line 342) is opened
\* and the temporary file is opened for writing; an HTTPError is caught in
\* download_release (lines 294-298), any other error escapes
OpenRelease ==
    /\ pc = "open_release"
    /\ LET url == ENV_get(ENV, "RELEASE_URL", remote[1].release_url)
           response == urlopen(url)
       IN /\ events' = Append(events, <<"GET", url>>)
          /\ IF response.status = "HTTPError"
             THEN stream' = stream /\ Finish("return 1")
             ELSE IF response.status = "URLError"
             THEN stream' = stream /\ Finish("raise URLError")
             ELSE stream' = response.body /\ pc' = "read"
                  /\ result' = result
    /\ UNCHANGED <<live, temp, stored, ENV, same_fs, local, remote, digest,
                   received, NotUpdater>>

\* lines 278-281: one chunk goes to the digest and to the temporary file
ReadChunk ==
    /\ pc = "read" /\ stream # <<>>
    /\ digest' = Append(digest, Head(stream))
    /\ temp' = <<[temp[1] EXCEPT !.content = Append(@, Head(stream))]>>
    /\ stream' = Tail(stream)
    /\ UNCHANGED <<pc, live, stored, ENV, same_fs, local, remote, received,
                   events, result, NotUpdater>>

\* lines 282 and 301-304: the digest is compared with the published hash;
\* on a mismatch the temporary file is deleted
Verify ==
    /\ pc = "read" /\ stream = <<>>
    /\ received' = <<hexdigest(digest)>>
    /\ IF hexdigest(digest) # remote[1].hash
       THEN /\ temp' = unlink(temp)
            /\ events' = Append(events, <<"unlink">>)
            /\ Finish("return 1")
       ELSE /\ temp' = temp /\ events' = events
            /\ pc' = "chmod" /\ result' = result
    /\ UNCHANGED <<live, stored, ENV, same_fs, local, remote, stream, digest,
                   NotUpdater>>

\* move_executable, lines 242-243
Chmod ==
    /\ pc = "chmod"
    /\ temp' = <<[temp[1] EXCEPT !.mode = executable(@)]>>
    /\ events' = Append(events, <<"chmod">>)
    /\ pc' = "move"
    /\ UNCHANGED <<live, stored, ENV, same_fs, local, remote, stream, digest,
                   received, result, NotUpdater>>

\* move_executable, line 247: shutil.move is os.rename when the temporary
\* file is on the file system of `path` ...
MoveRename ==
    /\ pc = "move" /\ same_fs
    /\ live' = temp[1]
    /\ temp' = <<>>
    /\ events' = Append(events, <<"rename">>)
    /\ Finish("return 0")
    /\ UNCHANGED <<stored, ENV, same_fs, local, remote, stream, digest,
                   received, NotUpdater>>

\* ... and otherwise copy2 followed by unlink: `path` is opened for
\* writing, which empties it,
MoveTruncate ==
    /\ pc = "move" /\ ~same_fs
    /\ live' = [live EXCEPT !.content = <<>>]
    /\ events' = Append(events, <<"truncate">>)
    /\ pc' = "copy"
    /\ UNCHANGED <<temp, stored, ENV, same_fs, local, remote, stream,
                   digest, received, result, NotUpdater>>

\* then receives the bytes and the mode, and the temporary file is deleted
MoveCopy ==
    /\ pc = "copy"
    /\ live' = temp[1]
    /\ temp' = unlink(temp)
    /\ events' = events \o << <<"copy">>, <<"unlink">> >>
    /\ Finish("return 0")
    /\ UNCHANGED <<stored, ENV, same_fs, local, remote, stream, digest,
                   received, NotUpdater>>

UpdaterNext ==
    \/ ReadReceipt
    \/ DownloadReceipt
    \/ Compare
    \/ MakeTemp
    \/ OpenRelease
    \/ ReadChunk
    \/ Verify
    \/ Chmod
    \/ MoveRename
    \/ MoveTruncate
    \/ MoveCopy

UpdaterSpec == UpdaterInit /\ [][UpdaterNext]_uvars

---------------------------------------------------------------------------
(* Properties of the self-updater *)

\* the release URL self_update resolves, and the bytes served there
ReleaseUrl == ENV_get(ENV, "RELEASE_URL", remote[1].release_url)

Served == urlopen(ReleaseUrl).body

\* the published receipt was obtained and is strictly later than the
\* embedded one
Newer ==
    /\ local # <<>> /\ remote # <<>>
    /\ Earlier(local[1].date, remote[1].date)

ExecutableBits(m) == \A bit \in {64, 8, 1} : (m \div bit) % 2 = 1

(* C18: when the published receipt is strictly later than the embedded     *)
(* one, the release download succeeds and its digest equals the published  *)
(* hash, self_update returns 0 and the live artifact path holds exactly    *)
(* the downloaded bytes, with the executable bits set.                     *)
C18_UpdateFound ==
    (/\ pc = "done" /\ Newer
     /\ urlopen(ReleaseUrl).status = "ok"
     /\ received = <<remote[1].hash>>)
    => /\ result = "return 0"
       /\ live.content = Served
       /\ ExecutableBits(live.mode)

\* an update was found, downloaded and moved into place
C18_Witness ==
    /\ pc = "done" /\ Newer /\ received = <<remote[1].hash>>
    /\ result = "return 0"
    /\ live.content = <<2, 3>>

(* C19: when the published receipt's date is equal to or earlier than the  *)
(* embedded one's, self_update returns 0, issues no release download,      *)
(* creates no temporary file and leaves the live artifact's bytes as they  *)
(* were.                                                                   *)
C19_NoUpdate ==
    (/\ local # <<>> /\ remote # <<>>
     /\ ~Earlier(local[1].date, remote[1].date))
    => /\ pc \in {"compare", "done"}
       /\ pc = "done" => result = "return 0"
       /\ \A i \in 1..Len(events) :
              /\ events[i][1] # "mkstemp"
              /\ events[i][1] = "GET" => events[i][2][1] \in {"u", "U"}
       /\ temp = <<>>
       /\ live = OldArtifact

\* self_update has returned 0 for a published receipt of the same date
C19_Witness ==
    /\ pc = "done" /\ result = "return 0"
    /\ local # <<>> /\ remote # <<>>
    /\ Instant(local[1].date) = Instant(remote[1].date)

(* C20: when the digest computed over the downloaded release differs from  *)
(* the published hash, self_update returns 1, the live artifact's bytes    *)
(* are as they were and the temporary file has been deleted.               *)
C20_IntegrityFailure ==
    (/\ pc = "done"
     /\ received # <<>> /\ received # <<remote[1].hash>>)
    => /\ result = "return 1"
       /\ live = OldArtifact
       /\ temp = <<>>

\* a release was downloaded whose digest is not the published hash
C20_Witness ==
    /\ pc = "done" /\ result = "return 1"
    /\ received # <<>> /\ received # <<remote[1].hash>>
    /\ \E i \in 1..Len(events) : events[i] = <<"mkstemp">>

\* the requests self_update has issued, in order
Gets == SelectSeq(events, LAMBDA e : e[1] = "GET")

\* a request that met a transport failure: an HTTP error status or no
\* connection
TransportFailed(statuses) ==
    \E i \in 1..Len(Gets) : urlopen(Gets[i][2]).status \in statuses

\* the release was downloaded and its digest is not the published hash
HashMismatch == received # <<>> /\ received # <<remote[1].hash>>

\* the live artifact path holds the complete release the published receipt
\* vouches for
VerifiedNew ==
    /\ remote # <<>>
    /\ received = <<remote[1].hash>>
    /\ live.content = Served

(* C21: any transport failure while fetching the published receipt or      *)
(* while downloading the release, an HTTP error status or a network        *)
(* failure without an HTTP status, is turned into return value 1 with the  *)
(* live artifact unchanged.                                                *)
C21_TransportFailureCaught ==
    (pc = "done" /\ TransportFailed({"HTTPError", "URLError"}))
    => /\ result = "return 1"
       /\ live = OldArtifact

(* C22: an exception escapes self_update only when the embedded receipt    *)
(* failed to parse or validate; every failure after that step ends in a    *)
(* returned result code.                                                   *)
C22_OnlyEmbeddedEscapes ==
    (pc = "done" /\ result \notin {"return 0", "return 1"})
    => /\ local = <<>>
       /\ from_dict(stored).exc # "none"

(* C23: at every point of self_update the live artifact path holds either  *)
(* the complete old artifact or the complete verified new one, and the     *)
(* swap is one rename, never a copy followed by a delete, wherever the     *)
(* temporary file was created.                                             *)
C23_AtomicReplacement ==
    /\ live = OldArtifact \/ VerifiedNew
    /\ \A i \in 1..Len(events) : events[i][1] \notin {"truncate", "copy"}

(* C24: self_update returns only 0 or 1; it returns 0 exactly when the     *)
(* published receipt is not newer than the embedded one or the live        *)
(* artifact was replaced by a verified download; it returns 1 for a failed *)
(* receipt fetch, a failed release download and a hash mismatch.           *)
C24_ResultCodes ==
    /\ result \in {"running", "return 0", "return 1"}
       \/ (pc = "done" /\ local = <<>>)
    /\ result = "return 0"
       <=> /\ pc = "done" /\ local # <<>> /\ remote # <<>>
           /\ \/ ~Earlier(local[1].date, remote[1].date)
              \/ VerifiedNew
    /\ (pc = "done" /\ TransportFailed({"HTTPError", "URLError"}))
       => result = "return 1"
    /\ (pc = "done" /\ HashMismatch) => result = "return 1"

(* C25: the receipt is fetched from the RECEIPT_URL override when it is    *)
(* configured and otherwise from the embedded record's receipt_url; the    *)
(* release is fetched from the RELEASE_URL override when configured and    *)
(* otherwise from the published record's release_url, never from the       *)
(* embedded record's release_url.                                          *)
C25_UrlResolution ==
    /\ Len(Gets) <= 2
    /\ Len(Gets) >= 1
       => Gets[1][2] = IF dict_has(ENV, "RECEIPT_URL")
                       THEN dict_get(ENV, "RECEIPT_URL")
                       ELSE dict_get(stored, "receipt_url")
    /\ Len(Gets) = 2
       => /\ Gets[2][2] = IF dict_has(ENV, "RELEASE_URL")
                          THEN dict_get(ENV, "RELEASE_URL")
                          ELSE dict_get(urlopen(Gets[1][2]).body,
                                        "release_url")
          /\ Gets[2][2] # dict_get(stored, "release_url")

\* both URLs came from the receipts: the release was requested where the
\* published receipt says, with no override configured
C25_Witness ==
    /\ Len(Gets) = 2
    /\ ENV = <<>>
    /\ Gets[2][2] = remote[1].release_url
    /\ Gets[2][2] # local[1].release_url

---------------------------------------------------------------------------
(* Serialization of the receipt's date *)

(* C28: asdict emits the record's date as its UTC instant at second        *)
(* precision in the form YYYY-MM-DDTHH:MM:SSZ, for every date with a UTC   *)
(* or non-UTC offset, with or without a sub-second part: the emitted text  *)
(* passes the date pattern and parses back to the same instant truncated   *)
(* to the second.                                                          *)
C28_DateAsUtcInstant ==
    [][(AsDict /\ receipt[1].date.tzinfo # <<>>) =>
          LET text == dict_get(record'[1], "date")
              parsed == fromisoformat(replace_Z(text))
          IN /\ RECEIPT_DATE(text)
             /\ Len(text) = 2
             /\ parsed[1]
             /\ parsed[2].tzinfo = <<0>>
             /\ Instant(parsed[2]) = <<Instant(receipt[1].date)[1], 0>>]_rvars

---------------------------------------------------------------------------
(* The permission field of an added member *)

\* (external_attr >> 16) & 0o7777 == mode, (external_attr >> 16) & 0xF000
\* == 0x8000 and the low 16 bits are zero
RegularFileWithMode(external_attr, m) ==
    /\ external_attr[2] = 0
    /\ external_attr[1] % 4096 = m
    /\ (external_attr[1] \div 4096) % 16 = 8

(* C29: for every mode in 0..0o7777 the external-attributes field add_file *)
(* computes has its low 16 bits zero and its high 16 bits equal to the     *)
(* regular-file marker 0x8000 or-ed with the mode; the member add_file     *)
(* writes carries that field, has the UTF-8 name flag (0x800) set and uses *)
(* the DEFLATE method.                                                     *)
C29_ModeEncoding ==
    [][\A path \in Names, payload \in Payloads, m \in Modes :
          (AddFile(path, payload, m) /\ last'.exc = "none") =>
              LET zi == infos'[filelist'[Len(filelist')]]
              IN /\ \A perm \in 0..4095 :
                        RegularFileWithMode(external_attr_of(perm), perm)
                 /\ RegularFileWithMode(zi.external_attr, m)
                 /\ (zi.flag_bits \div 2048) % 2 = 1
                 /\ zi.compress_type = 8]_vars

---------------------------------------------------------------------------
(***************************************************************************)
(* The downloader (src/src/cosmofy/downloader.py).                         *)
(*                                                                         *)
(* A call of download, download_if_newer or download_and_hash on one URL   *)
(* and one path.  Times are whole numbers, a chunk is one byte of the      *)
(* body.  The server answers every request; the headers are what the code  *)
(* reads off the response.                                                 *)
(***************************************************************************)
\* what the URL may serve
Resources ==
    [Last_Modified : {<<>>, <<1>>, <<2>>, <<3>>},
     Content_Length : {<<>>, <<"len">>},
     body : {<<>>, <<2>>, <<2, 3>>}]

\* remote >= local
not_earlier(t_remote, t_local) == t_remote >= t_local

\* remote > local (line 72)
later(t_remote, t_local) == t_remote > t_local

\* response.getheader("Content-Length") or "0", then int(header.strip())
\* (lines 43-44)
declared_total(r) ==
    IF r.Content_Length = <<>> THEN 0 ELSE Len(r.body)

NotDownloader == <<vars, rvars, uvars, bvars, pvars, nvars>>

DownloaderInit ==
    /\ called \in {"download", "download_if_newer", "download_and_hash"}
    /\ step = IF called = "download_if_newer" THEN "start" ELSE "open"
    /\ on_disk \in {<<>>, <<1>>, <<2>>}
    /\ resource \in Resources
    /\ requested = <<>> /\ unread = <<>>
    /\ total = 0 /\ done_bytes = 0 /\ shown = <<>>
    /\ output = <<>> /\ hashed = <<>>
    /\ outcome = [exc |-> "none", val |-> <<>>]
    /\ ArchiveIdle /\ ReceiptIdle /\ UpdaterIdle /\ BundlerIdle
    /\ PythonIdle /\ RunIdle

\* download_if_newer, lines 66-73, up to the call of download: a HEAD
\* request only when the path exists; a response without Last-Modified
\* makes parsedate_to_datetime raise
DownloadIfNewer ==
    /\ step = "start"
    /\ IF on_disk = <<>>
       THEN /\ requested' = requested
            /\ step' = "open" /\ outcome' = outcome
       ELSE /\ requested' = Append(requested, "HEAD")
            /\ IF resource.Last_Modified = <<>>
               THEN /\ step' = "done"
                    /\ outcome' = [exc |-> "ValueError", val |-> <<>>]
               ELSE IF later(resource.Last_Modified[1], on_disk[1])
               THEN step' = "open" /\ outcome' = outcome
               ELSE /\ step' = "done"
                    /\ outcome' = [exc |-> "none", val |-> <<"path">>]
    /\ UNCHANGED <<called, on_disk, resource, unread, total, done_bytes,
                   shown, output, hashed, NotDownloader>>

\* download, lines 58-59, and download_and_hash, lines 80-82: the URL and
\* the path are opened; progress, lines 43-45, reads the declared length
Open ==
    /\ step = "open"
    /\ requested' = Append(requested, "GET")
    /\ output' = << <<>> >>
    /\ unread' = resource.body
    /\ total' = declared_total(resource)
    /\ done_bytes' = 0
    /\ step' = "chunks"
    /\ UNCHANGED <<called, on_disk, resource, shown, hashed, outcome,
                   NotDownloader>>

\* progress, lines 46-50, and the body of the caller's loop: the percentage
\* is computed by a division by total before the chunk is yielded
Chunk ==
    /\ step = "chunks" /\ unread # <<>>
    /\ unread' = Tail(unread)
    /\ done_bytes' = done_bytes + 1
    /\ IF total = 0
       THEN /\ step' = "done"
            /\ outcome' = [exc |-> "ZeroDivisionError", val |-> <<>>]
            /\ UNCHANGED <<shown, output, hashed>>
       ELSE /\ shown' = Append(shown, (done_bytes' * 100) \div total)
            /\ output' = <<Append(output[1], Head(unread))>>
            /\ hashed' = IF called = "download_and_hash"
                         THEN Append(hashed, Head(unread)) ELSE hashed
            /\ UNCHANGED <<step, outcome>>
    /\ UNCHANGED <<called, on_disk, resource, requested, total,
                   NotDownloader>>

\* the response is at its end: download returns the path (line 61, and so
\* does download_if_newer, line 73), download_and_hash the digest (line 85)
Return ==
    /\ step = "chunks" /\ unread = <<>>
    /\ step' = "done"
    /\ outcome' = [exc |-> "none",
                   val |-> IF called = "download_and_hash"
                           THEN <<"hexdigest">> \o hexdigest(hashed)
                           ELSE <<"path">>]
    /\ UNCHANGED <<called, on_disk, resource, requested, unread, total,
                   done_bytes, shown, output, hashed, NotDownloader>>

DownloaderNext ==
    \/ DownloadIfNewer
    \/ Open
    \/ Chunk
    \/ Return

DownloaderSpec == DownloaderInit /\ [][DownloaderNext]_dvars

---------------------------------------------------------------------------
(* Properties of the downloader *)

\* how many requests of a method were issued
Issued(method) == Len(SelectSeq(requested, LAMBDA m : m = method))

C27_NoContentLength ==
    (/\ called \in {"download", "download_and_hash"}
     /\ step = "done"
     /\ resource.Content_Length = <<>>)
    => /\ total = 0
       /\ shown = <<>>
       /\ outcome.exc = "none"
       /\ output = <<resource.body>>
       /\ called = "download_and_hash" => hashed = resource.body

---------------------------------------------------------------------------
(***************************************************************************)
(* The bundler's file and archive operations (src/src/cosmofy/bundler.py). *)
(*                                                                         *)
(* A file is [content, x]: what it holds, as the member listing a ZIP      *)
(* reader finds in it, and whether it is executable.  The archive is the   *)
(* ZipFile2 the bundler hands around: [file, listing], file = <<>> for an  *)
(* io.BytesIO and <<path>> for a file on disk, whose content follows the   *)
(* listing.                                                                *)
(***************************************************************************)
MaxMembers == 2

\* the cached download and the temporary file
Paths == {"cache", "temp"}

\* .args, the updater module and a module of the project
MemberNames == {".args", "updater.pyc", "m.pyc"}

\* Cosmopolitan Python as it is downloaded
Python == [content |-> <<"updater.pyc">>, x |-> FALSE]

\* args.for_real (args.py:160-163)
for_real == ~args.dry_run

\* _archive(path): ZipFile2(path, mode="a", ...) opens the file for update
\* and creates it when there is none
_archive(d, p) ==
    LET d1 == IF d[p] = <<>>
              THEN [d EXCEPT ![p] = <<[content |-> <<>>, x |-> FALSE]>>]
              ELSE d
    IN [disk |-> d1,
        archive |-> [file |-> <<p>>, listing |-> d1[p][1].content]]

\* `archive or _archive(dest)` (lines 167, 174)
archive_or(w, given, dest) ==
    IF given THEN w ELSE _archive(w.disk, dest)

\* the archive's listing becomes l; an archive on disk is written through
listing_set(w, l) ==
    [disk |-> IF w.archive.file = <<>> THEN w.disk
              ELSE [w.disk EXCEPT ![w.archive.file[1]] =
                        <<[@[1] EXCEPT !.content = l]>>],
     archive |-> [w.archive EXCEPT !.listing = l]]

\* archive.add_file(dest, data, 0o644), done only for real
zip_add_file(w, dest) ==
    IF for_real THEN listing_set(w, Append(w.archive.listing, dest)) ELSE w

\* add_updater(archive, python_args), lines 260-291: nothing without a
\* release URL or when the module is already a member
add_updater(w) ==
    IF args.release_url = "" THEN w
    ELSE IF \E i \in 1..Len(w.archive.listing) :
                w.archive.listing[i] = "updater.pyc"
    THEN w
    ELSE zip_add_file(w, "updater.pyc")

World == [disk |-> disk, archive |-> archive]

NotBundler == <<vars, rvars, uvars, dvars, pvars, nvars>>

BundlerInit ==
    /\ args \in [dry_run : BOOLEAN, release_url : {"", "url"},
                 args : {"", "-m m"}]
    /\ \E t \in {<<>>, <<[content |-> <<>>, x |-> FALSE]>>} :
       \E c \in {<<>>, <<Python>>} :
           disk = [p \in Paths |-> IF p = "cache" THEN c ELSE t]
    /\ archive \in [file : {<<>>}, listing : {<<>>, <<"m.pyc">>}]
    /\ did = [op |-> "init", exc |-> "none"]
    /\ ArchiveIdle /\ ReceiptIdle /\ UpdaterIdle /\ DownloaderIdle
    /\ PythonIdle /\ RunIdle

\* the call leaves the world as w
Done(op, exc, w) ==
    /\ disk' = w.disk
    /\ archive' = w.archive
    /\ did' = [op |-> op, exc |-> exc]
    /\ Len(w.archive.listing) <= MaxMembers
    /\ UNCHANGED <<args, NotBundler>>

\* fs_copy(src, dest), lines 140-145
FsCopy(src, dest) ==
    /\ disk[src] # <<>>
    /\ Done("fs_copy", "none",
            IF for_real
            THEN [World EXCEPT !.disk = [disk EXCEPT ![dest] = disk[src]]]
            ELSE World)

\* fs_move_executable(src, dest), lines 147-155
FsMoveExecutable(src, dest) ==
    /\ disk[src] # <<>> /\ src # dest
    /\ archive.file # <<src>>
    /\ Done("fs_move_executable", "none",
            IF for_real
            THEN [World EXCEPT !.disk =
                     [disk EXCEPT ![dest] = <<[disk[src][1] EXCEPT !.x = TRUE]>>,
                                  ![src] = <<>>]]
            ELSE World)

\* from_cache(src, dest, archive), lines 158-167: for real the cached file
\* is downloaded when it is missing or older; then fs_copy
FromCache(src, dest, given) ==
    /\ src # dest
    /\ \E fresh \in BOOLEAN :
           LET d1 == IF for_real /\ (disk[src] = <<>> \/ fresh)
                     THEN [disk EXCEPT ![src] = <<Python>>] ELSE disk
               d2 == IF for_real THEN [d1 EXCEPT ![dest] = d1[src]] ELSE d1
           IN /\ for_real \/ ~fresh
              /\ archive.file # <<dest>>
              /\ Done("from_cache", "none",
                      archive_or([World EXCEPT !.disk = d2], given, dest))

\* from_download(dest, archive), lines 169-174
FromDownload(dest, given) ==
    /\ archive.file # <<dest>>
    /\ Done("from_download", "none",
            archive_or([World EXCEPT !.disk =
                           IF for_real
                           THEN [disk EXCEPT ![dest] = <<Python>>]
                           ELSE disk],
                       given, dest))

\* zip_add(archive, include, exclude), lines 217-250, for one file
ZipAdd(name) ==
    Done("zip_add", "none", zip_add_file(World, name))

\* zip_remove(archive, pattern), lines 252-258: archive.remove raises
\* KeyError for a name that is not a member
ZipRemove(name) ==
    LET l == archive.listing
        at == {i \in 1..Len(l) : l[i] = name}
        newest == CHOOSE i \in at : \A j \in at : j <= i
    IN IF ~for_real THEN Done("zip_remove", "none", World)
       ELSE IF at = {} THEN Done("zip_remove", "KeyError", World)
       ELSE Done("zip_remove", "none",
                 listing_set(World, SubSeq(l, 1, newest - 1)
                                    \o SubSeq(l, newest + 1, Len(l))))

\* add_updater(archive, python_args)
AddUpdater ==
    Done("add_updater", "none", add_updater(World))

\* write_args(archive, main), lines 293-301
WriteArgs(main) ==
    Done("write_args", "none",
         IF args.args # "" \/ main
         THEN zip_add_file(add_updater(World), ".args")
         ELSE World)

BundlerNext ==
    \/ \E src, dest \in Paths : FsCopy(src, dest)
    \/ \E src, dest \in Paths : FsMoveExecutable(src, dest)
    \/ \E src, dest \in Paths, given \in BOOLEAN : FromCache(src, dest, given)
    \/ \E dest \in Paths, given \in BOOLEAN : FromDownload(dest, given)
    \/ ZipAdd("m.pyc")
    \/ \E name \in MemberNames : ZipRemove(name)
    \/ AddUpdater
    \/ \E main \in BOOLEAN : WriteArgs(main)

BundlerSpec == BundlerInit /\ [][BundlerNext]_bvars

---------------------------------------------------------------------------
(* Properties of the bundler *)

(* C30: in dry-run mode no call of fs_copy, fs_move_executable,            *)
(* from_cache, from_download, zip_add, zip_remove, add_updater or          *)
(* write_args changes a file on disk or the member listing of the archive. *)
C30_DryRunChangesNothing ==
    [][args.dry_run =>
          /\ disk' = disk
          /\ archive'.file = archive.file
             => archive'.listing = archive.listing]_bvars

---------------------------------------------------------------------------
(* Safety and ordering of the self-updater *)

\* position of the first event of a kind, 0 when there is none
FirstEvent(kind) ==
    IF \E i \in 1..Len(events) : events[i][1] = kind
    THEN CHOOSE i \in 1..Len(events) :
             /\ events[i][1] = kind
             /\ \A j \in 1..(i - 1) : events[j][1] # kind
    ELSE 0

(* C34: the live artifact's content changes only if the published receipt  *)
(* is strictly newer than the embedded one and the digest of the           *)
(* downloaded bytes equals the published hash; the comparison happens      *)
(* before the chmod and the move, and the bytes moved into place are the   *)
(* bytes that were hashed.                                                 *)
C34_VerifiedOnlyReplacement ==
    /\ live # OldArtifact =>
           /\ Newer
           /\ received = <<hexdigest(digest)>>
           /\ received = <<remote[1].hash>>
    /\ \A i \in 1..Len(events) :
           events[i][1] \in {"chmod", "rename", "truncate", "copy"} =>
               /\ received = <<remote[1].hash>>
               /\ stream = <<>>
    /\ \A i \in 1..Len(events) :
           events[i][1] \in {"rename", "copy"} => live.content = digest
    /\ pc \in {"chmod", "move", "copy"} => temp[1].content = digest

\* a verified release was renamed onto the live artifact path
C34_Witness ==
    /\ pc = "done" /\ live # OldArtifact
    /\ FirstEvent("rename") > FirstEvent("chmod")
    /\ FirstEvent("chmod") > 0
    /\ live.content = digest /\ digest = <<2, 3>>

(* C35: one invocation of self_update issues at most one receipt fetch and *)
(* at most one release download, the receipt fetch precedes the release    *)
(* download, and the release download is issued only after the published   *)
(* receipt was obtained and found newer.                                   *)
C35_NoRetriesFixedOrder ==
    LET fetches == SelectSeq(events, LAMBDA e :
                       e[1] = "GET" /\ e[2][1] \in {"u", "U"})
        downloads == SelectSeq(events, LAMBDA e :
                         e[1] = "GET" /\ e[2][1] \in {"v", "V", "e"})
    IN /\ Len(fetches) <= 1
       /\ Len(downloads) <= 1
       /\ Len(downloads) = 1 =>
              /\ Len(fetches) = 1
              /\ Gets = fetches \o downloads
              /\ urlopen(fetches[1][2]).status = "ok"
              /\ Newer

\* the release download was issued, after the receipt fetch
C35_Witness ==
    /\ Len(Gets) = 2
    /\ Gets[1][2][1] \in {"u", "U"} /\ Gets[2][2][1] \in {"v", "V"}
    /\ pc = "done" /\ result = "return 1"

---------------------------------------------------------------------------
(* Layout, index and frame of removals *)

\* the members occupy contiguous, non-overlapping spans that end at the
\* directory start: each member's header is at its offset and the next
\* member, or the directory, starts where its payload ends
Layout ==
    \A id \in Listed :
        /\ Span(id) = 1 + infos[id].file_size
        /\ storage[infos[id].header_offset + 1] = FileHeader(infos[id])
        /\ \A j \in Listed \ {id} :
               infos[j].header_offset # infos[id].header_offset

RECURSIVE SumOfSpans(_)
SumOfSpans(ids) ==
    IF ids = {} THEN 0
    ELSE LET id == CHOOSE x \in ids : TRUE
         IN Span(id) + SumOfSpans(ids \ {id})

(* C36: from an archive whose members occupy contiguous, non-overlapping   *)
(* spans ending at the directory start, a removal (by name, by glob or by  *)
(* ZipInfo) leaves the surviving members in contiguous, non-overlapping    *)
(* spans in the same relative physical order, the last span ending at the  *)
(* directory start, and the directory start reduced by the sum of the      *)
(* removed spans.                                                          *)
C36_PhysicalLayout ==
    [][(RemovalStep /\ Layout) =>
          /\ Layout'
          /\ \A j, k \in Listed \ Gone :
                 infos[j].header_offset < infos[k].header_offset
                     => infos'[j].header_offset < infos'[k].header_offset
          /\ start_dir' = start_dir - SumOfSpans(Gone)]_vars

\* removals have left one member, at the start of the storage, of a
\* container this object has removed from
C36_Witness ==
    /\ last.op = "remove" /\ last.exc = "none"
    /\ Len(filelist) = 1 /\ dirty
    /\ Layout
    /\ infos[filelist[1]].header_offset = 0
    /\ start_dir = 1 + infos[filelist[1]].file_size

\* the name index and the listing agree
IndexAgrees ==
    /\ \A id \in Listed : infos[id].filename \in DOMAIN NameToInfo
    /\ \A name \in DOMAIN NameToInfo :
           /\ NameToInfo[name] \in Listed
           /\ infos[NameToInfo[name]].filename = name

(* C37: after any sequence of add_file and remove calls on an append-mode  *)
(* container every listed member's name is a key of the name index, every  *)
(* index entry is a listed member, and a remove by name or by glob does    *)
(* not fail on a member that is in the listing.                            *)
C37_ListingIndexConsistency ==
    [][/\ (mode' = "a" /\ fp' = "open") => IndexAgrees'
       /\ \A pat \in Patterns :
              (Remove(pat) /\ Usable /\ Matches(pat) # {})
                  => last'.exc = "none"]_vars

(* C38: a removal leaves every member that is physically located before    *)
(* the removed ones untouched, with the same header offset and the same    *)
(* bytes in storage, and the bytes of every surviving member at its new    *)
(* offset equal its bytes at its old offset before the removal.            *)
C38_RemovalFrame ==
    [][RemovalStep =>
          \A j \in Listed \ Gone :
              /\ (\A g \in Gone :
                      infos[j].header_offset < infos[g].header_offset) =>
                     /\ infos'[j].header_offset = infos[j].header_offset
                     /\ ReadAt(storage', infos[j].header_offset, Span(j)) =
                            ReadAt(storage, infos[j].header_offset, Span(j))
              /\ Len(ReadAt(storage', infos'[j].header_offset, Span(j)))
                     = Span(j)
              /\ ReadAt(storage', infos'[j].header_offset, Span(j)) =
                     ReadAt(storage, infos[j].header_offset, Span(j))]_vars

\* the second of three members was removed: the first stayed at the start
\* of the storage and the third was moved to follow it
C38_Witness ==
    /\ last.exc = "none" /\ last.note = "shift"
    /\ Listed = {1, 3}
    /\ infos[1].header_offset = 0
    /\ infos[3].header_offset = Span(1)
    /\ infos[3].file_size > 0

---------------------------------------------------------------------------
(* The Python command line emulation: PythonArgs.parse, run_python and    *)
(* main of src/src/cosmofy/updater.py, and PythonArgs.parse and           *)
(* run_python of src/src/cosmofy/pythonoid.py, which differ from the      *)
(* former in the help option and in the default of interactive mode.      *)
(* A token is the sequence of its characters; an Optional[str] is <<>>    *)
(* for None and <<token>> otherwise.                                      *)

MaxArgs == 3

Opt(ch) == <<"-", ch>>

LongVersion == <<"-", "-", "v", "e", "r", "s", "i", "o", "n">>

LongHelp == <<"-", "-", "h", "e", "l", "p">>

SelfUpdate ==
    <<"-", "-", "s", "e", "l", "f", "-", "u", "p", "d", "a", "t", "e">>

\* the tokens of the argument lists: the empty string, the lone dash, the
\* options with a value, flags, an unknown option, combined short flags,
\* a word (a script, a module or a command)
Tokens ==
    {<<>>, <<"-">>, Opt("c"), Opt("m"), Opt("i"), Opt("V"), LongVersion,
     Opt("h"), Opt("z"), <<"-", "q", "i">>, <<"-", "q", "c">>,
     <<"-", "c", "q">>, <<"s">>, SelfUpdate}

ArgLists == UNION {[1..n -> Tokens] : n \in 0..MaxArgs}

\* sys.argv[1:] of the process when main is handed a list of its own
ProcessArgs == <<SelfUpdate>>

\* what sys.stdin.read() returns
StdinTexts == {<<>>, <<"x">>}

\* str.startswith
startswith(arg, prefix) ==
    Len(arg) >= Len(prefix) /\ SubSeq(arg, 1, Len(prefix)) = prefix

\* updater.py:386-390, pythonoid.py:139-143: UNSUPPORTED, of which the
\* model holds the short options, -OO and --help
UNSUPPORTED(fl) ==
    LET short == {Opt(ch) : ch \in {"b", "B", "d", "E", "I", "O", "P", "R",
                                    "s", "S", "u", "v", "W", "x", "X"}}
                 \cup {<<"-", "O", "O">>}
    IN IF fl = "updater"
       THEN short \cup {Opt("?"), Opt("h"), LongHelp}
       ELSE short

\* updater.py:351-380, pythonoid.py:101-133: a new PythonArgs (args in the
\* code, pa here); inspect is
\* pythonoid's ENV.get("PYTHONINSPECT", "") == "x"
PythonArgs(inspect) ==
    [c |-> <<>>, h |-> FALSE, i |-> inspect, m |-> <<>>, q |-> FALSE,
     V |-> FALSE, VV |-> FALSE, script |-> <<>>, argv |-> <<>>]

\* the truth value of an Optional[str]: None and "" are false
truthy(o) == o # <<>> /\ o[1] # <<>>

\* expand that puts the token back
expand_same(arg) == <<arg>>

\* updater.py:395-397: [f"-{a}" for a in arg[1:]]
expand(arg) == [k \in 1..(Len(arg) - 1) |-> <<"-", arg[k + 1]>>]

\* args.argv += argv; args.argv.insert(0, arg) behind the token that ended the options
remainder(pa, arg, rest) ==
    [pa EXCEPT !.argv = <<arg>> \o pa.argv \o rest]

\* updater.py:392-429, pythonoid.py:145-184: one iteration of the loop of
\* parse, on a list that is not empty; text and tty are what sys.stdin
\* gives.  ctl is "loop" to go on, "end" after a break, "raised" for
\* ValueError.
iteration(fl, av, pa, text, tty) ==
    LET arg == Head(av)
        rest == Tail(av)
        on(a, c) == [argv |-> a, pa |-> pa, ctl |-> c]
        to(a, g, c) == [argv |-> a, pa |-> g, ctl |-> c]
    IN IF ~startswith(arg, <<"-", "-">>) /\ startswith(arg, <<"-">>)
          /\ Len(arg) > 2
       THEN on(expand(arg) \o rest, "loop")
       ELSE IF arg \in {Opt("c"), Opt("m")}
       THEN IF rest = <<>> THEN on(rest, "raised")
            ELSE LET set == IF arg = Opt("c")
                            THEN [pa EXCEPT !.c = <<Head(rest)>>]
                            ELSE [pa EXCEPT !.m = <<Head(rest)>>]
                 IN to(Tail(rest), remainder(set, arg, Tail(rest)), "end")
       ELSE IF fl = "pythonoid" /\ arg \in {Opt("?"), Opt("h"), LongHelp}
       THEN to(rest, [pa EXCEPT !.h = TRUE], "loop")
       ELSE IF arg = Opt("i") THEN to(rest, [pa EXCEPT !.i = TRUE], "loop")
       ELSE IF arg = Opt("q") THEN to(rest, [pa EXCEPT !.q = TRUE], "loop")
       ELSE IF arg = <<"-">>
       THEN to(rest,
               remainder([pa EXCEPT !.c = <<text>>,
                                      !.i = (pa.i \/ tty)], arg, rest),
               "end")
       ELSE IF arg \in {Opt("V"), LongVersion}
       THEN to(rest, IF pa.V THEN [pa EXCEPT !.VV = TRUE]
                     ELSE [pa EXCEPT !.V = TRUE], "loop")
       ELSE IF arg \in UNSUPPORTED(fl) THEN on(rest, "raised")
       ELSE IF startswith(arg, <<"-">>) THEN on(rest, "raised")
       ELSE to(rest, remainder([pa EXCEPT !.script = <<arg>>], arg, rest),
               "end")

\* updater.py:431-434, pythonoid.py:186-189: nothing to run means
\* interactive mode
parse_return(pa) ==
    IF ~(truthy(pa.c) \/ pa.h \/ pa.i \/ truthy(pa.m) \/ pa.V
         \/ truthy(pa.script))
    THEN [pa EXCEPT !.i = TRUE, !.argv = <<<<>>>> \o pa.argv]
    ELSE pa

\* updater.py:470-480, pythonoid.py:229-239: what run_python executes
what_runs(pa) ==
    IF truthy(pa.c) THEN "exec"
    ELSE IF truthy(pa.m) THEN "run_module"
    ELSE IF truthy(pa.script) THEN "run_path"
    ELSE "nothing"

\* interactive mode that keeps the code of what ran before it
interactive_keeps_code(c) == c

\* updater.py:488-489: if args.i: code = 0
interactive_code(c) == "return 0"

\* updater.py:445-496, pythonoid.py:199-255: run_python after parse has
\* returned pa.  raised is what the executed code raises ("none", an
\* Exception, or SystemExit, which is not an Exception); session is how
\* the interactive session ends (end of input, or exit(), which raises
\* SystemExit out of code.interact).
run_parsed(fl, pa, raised, session) ==
    LET what == what_runs(pa)
        happened == IF what = "nothing" THEN "none" ELSE raised
        first == IF what = "nothing" THEN <<>> ELSE <<<<what, happened>>>>
        quiet == pa.q \/ what # "nothing"
        code1 == IF happened = "Exception" THEN "return 1" ELSE "return 0"
        banner == IF quiet THEN "quiet" ELSE "banner"
    IN IF pa.h THEN [ran |-> <<<<"print", "usage">>>>, code |-> "return 0"]
       ELSE IF pa.V
       THEN [ran |-> <<<<"print", IF pa.VV THEN "sys.version"
                                  ELSE "version_info">>>>,
             code |-> "return 0"]
       ELSE IF happened = "SystemExit"
       THEN [ran |-> first, code |-> "raise SystemExit"]
       ELSE IF pa.i
       THEN [ran |-> first \o <<<<"interact", banner>>>>,
             code |-> IF session = "exit" THEN "raise SystemExit"
                      ELSE interactive_code(code1)]
       ELSE [ran |-> first, code |-> code1]

\* updater.py:501: args = argv or sys.argv[1:]
effective(given, process) ==
    IF given = <<>> \/ given[1] = <<>> THEN process ELSE given[1]

\* main with the version request looked at before the help request
dispatch_version_first(list) ==
    IF SelfUpdate \notin Range(list) THEN "run_python"
    ELSE IF LongVersion \in Range(list) THEN "version"
    ELSE IF Opt("h") \in Range(list) \/ LongHelp \in Range(list) THEN "help"
    ELSE "self_update"

\* updater.py:502-518: what main does with the list
dispatch(list) ==
    IF SelfUpdate \notin Range(list) THEN "run_python"
    ELSE IF Opt("h") \in Range(list) \/ LongHelp \in Range(list) THEN "help"
    ELSE IF LongVersion \in Range(list) THEN "version"
    ELSE "self_update"

NotPython == <<vars, rvars, uvars, dvars, bvars, nvars>>

\* updater.main(argv) is called with a list or with None, and pythonoid's
\* run_python(sys.argv[1:]) is called by its __main__ block
PythonInit ==
    /\ \E list \in ArgLists :
           \/ /\ flavour = "updater" /\ ctl = "main"
              /\ argv = <<>> /\ pyargs = PythonArgs(FALSE)
              /\ \/ passed = <<>> /\ sys_argv = list
                 \/ passed = <<list>> /\ sys_argv = ProcessArgs
           \/ /\ flavour = "pythonoid" /\ ctl = "loop"
              /\ argv = list /\ sys_argv = list /\ passed = <<>>
              /\ \E inspect \in BOOLEAN : pyargs = PythonArgs(inspect)
    /\ ran = <<>> /\ code = "running"
    /\ ArchiveIdle /\ ReceiptIdle /\ UpdaterIdle /\ DownloaderIdle
    /\ BundlerIdle /\ RunIdle

\* updater.py:499-518: main, up to the call of run_python; self_update is
\* the run of UpdaterSpec, of which r is the outcome
Main ==
    /\ ctl = "main"
    /\ LET list == effective(passed, sys_argv)
           to == dispatch(list)
       IN \/ /\ to = "run_python"
             /\ argv' = list /\ ctl' = "loop"
             /\ UNCHANGED <<ran, code>>
          \/ /\ to = "help"
             /\ ran' = <<<<"print", "doc">>>> /\ code' = "return 0"
             /\ ctl' = "done" /\ argv' = argv
          \/ /\ to = "version"
             /\ ran' = <<<<"print", "cosmofy.updater">>>>
             /\ code' = "return 0"
             /\ ctl' = "done" /\ argv' = argv
          \/ /\ to = "self_update"
             /\ \E r \in {"return 0", "return 1", "raise URLError"} :
                    code' = r
             /\ ran' = <<<<"call", "self_update">>>>
             /\ ctl' = "done" /\ argv' = argv
    /\ UNCHANGED <<flavour, sys_argv, passed, pyargs, NotPython>>

\* one iteration of `while argv:`
Iterate ==
    /\ ctl = "loop" /\ argv # <<>>
    /\ \E text \in StdinTexts, tty \in BOOLEAN :
           LET r == iteration(flavour, argv, pyargs, text, tty)
           IN argv' = r.argv /\ pyargs' = r.pa /\ ctl' = r.ctl
    /\ UNCHANGED <<flavour, sys_argv, passed, ran, code, NotPython>>

\* the loop has ended, by a break or with the list exhausted: parse returns
ParseReturn ==
    /\ ctl = "end" \/ (ctl = "loop" /\ argv = <<>>)
    /\ pyargs' = parse_return(pyargs)
    /\ ctl' = "parsed"
    /\ UNCHANGED <<flavour, sys_argv, passed, argv, ran, code, NotPython>>

\* updater.py:439-443: parse raised ValueError
ParseFailed ==
    /\ ctl = "raised"
    /\ ran' = ran \o <<<<"log", "error">>>>
    /\ code' = "return 2"
    /\ ctl' = "done"
    /\ UNCHANGED <<flavour, sys_argv, passed, argv, pyargs, NotPython>>

\* updater.py:445-496: the rest of run_python
RunParsed ==
    /\ ctl = "parsed"
    /\ \E raised \in {"none", "Exception", "SystemExit"},
          session \in {"eof", "exit"} :
           LET r == run_parsed(flavour, pyargs, raised, session)
           IN ran' = ran \o r.ran /\ code' = r.code
    /\ ctl' = "done"
    /\ UNCHANGED <<flavour, sys_argv, passed, argv, pyargs, NotPython>>

PythonNext ==
    \/ Main
    \/ Iterate
    \/ ParseReturn
    \/ ParseFailed
    \/ RunParsed

PythonSpec == PythonInit /\ [][PythonNext]_pvars

\* the interpreter runs the call to its end
PythonLive == PythonSpec /\ WF_pvars(PythonNext)

---------------------------------------------------------------------------
(* Properties of the Python command line emulation *)

\* the list parse is handed
Handed ==
    IF flavour = "updater" THEN effective(passed, sys_argv) ELSE sys_argv

\* a token of combined short flags
Combined(t) ==
    ~startswith(t, <<"-", "-">>) /\ startswith(t, <<"-">>) /\ Len(t) > 2

\* a token as the single flags it stands for
Pieces(t) ==
    IF Combined(t) THEN [k \in 1..(Len(t) - 1) |-> Opt(t[k + 1])] ELSE <<t>>

RECURSIVE Flat(_, _)
Flat(list, k) ==
    IF k = 0 THEN <<>> ELSE Flat(list, k - 1) \o Pieces(list[k])

\* the list with its first k tokens read as single flags, the rest as given
ReadAs(list, k) == Flat(list, k) \o SubSeq(list, k + 1, Len(list))

IsFlag(t) ==
    \/ t \in {Opt("i"), Opt("q"), Opt("V"), LongVersion}
    \/ flavour = "pythonoid" /\ t \in {Opt("?"), Opt("h"), LongHelp}

\* the tokens that end option processing
Stops(t) == t \in {Opt("c"), Opt("m"), <<"-">>} \/ ~startswith(t, <<"-">>)

\* the first token that is not a flag: <<k, p>> when it is at position p
\* of the list read up to its k-th token, within that token
Points(list) ==
    {kp \in (1..Len(list)) \X (1..(Len(Flat(list, Len(list))))) :
        LET seen == ReadAs(list, kp[1])
        IN /\ Len(Flat(list, kp[1] - 1)) < kp[2]
           /\ kp[2] <= Len(Flat(list, kp[1]))
           /\ \A j \in 1..(kp[2] - 1) : IsFlag(seen[j])
           /\ ~IsFlag(seen[kp[2]])}

\* how many of the first n tokens of a list are in a set
Among(list, n, set) == Cardinality({j \in 1..n : list[j] \in set})

\* the flags among the first n tokens of a list are applied
Applied(list, n) ==
    /\ Among(list, n, {Opt("i")}) > 0 => pyargs.i
    /\ pyargs.q <=> Among(list, n, {Opt("q")}) > 0
    /\ pyargs.V <=> Among(list, n, {Opt("V"), LongVersion}) > 0
    /\ pyargs.VV <=> Among(list, n, {Opt("V"), LongVersion}) > 1

(* C31: parse stops option processing at the first -c or -m, which takes   *)
(* the following token as its value, at a lone dash, or at the first       *)
(* token that is not an option (the script).  Every token after that point *)
(* is args.argv[1:], unchanged and in order, and args.argv[0] is -c, -m,   *)
(* the dash or the script name; the flags before that point are applied,   *)
(* combined short flags as the single flags they stand for and a second    *)
(* version flag as VV; an empty list gives interactive mode with           *)
(* argv == [""]; and ValueError is raised exactly for a -c or -m without a *)
(* value and for an option that is unsupported or unknown.                 *)
C31_ParseContract ==
    LET list == Handed
        pts == Points(list)
        whole == Flat(list, Len(list))
    IN /\ ctl = "raised" =>
              /\ pts # {}
              /\ \A kp \in pts :
                     LET seen == ReadAs(list, kp[1])
                         stop == seen[kp[2]]
                     IN \/ ~Stops(stop)
                        \/ stop \in {Opt("c"), Opt("m")}
                               /\ kp[2] = Len(seen)
       /\ ctl = "parsed" =>
              /\ list = <<>> => pyargs.i /\ pyargs.argv = <<<<>>>>
              /\ pts = {} => Applied(whole, Len(whole))
              /\ \A kp \in pts :
                     LET seen == ReadAs(list, kp[1])
                         p == kp[2]
                         stop == seen[p]
                         valued == stop \in {Opt("c"), Opt("m")}
                     IN /\ Stops(stop)
                        /\ valued => p < Len(seen)
                        /\ pyargs.argv # <<>>
                        /\ Head(pyargs.argv) = stop
                        /\ Tail(pyargs.argv) =
                               SubSeq(seen, p + (IF valued THEN 2 ELSE 1),
                                      Len(seen))
                        /\ stop = Opt("c") => pyargs.c = <<seen[p + 1]>>
                        /\ stop = Opt("m") => pyargs.m = <<seen[p + 1]>>
                        /\ ~startswith(stop, <<"-">>) =>
                               pyargs.script = <<stop>>
                        /\ Applied(seen, p - 1)

\* run_python has run to its end: the call of pythonoid's __main__ block,
\* or the one main makes
RunPythonOver ==
    /\ ctl = "done"
    /\ flavour = "updater" => dispatch(effective(passed, sys_argv)) = "run_python"

\* parse raised ValueError
Refused == <<"log", "error">> \in Range(ran)

\* the events of a kind in ran
Ran(kind) == SelectSeq(ran, LAMBDA e : e[1] = kind)

\* what run_python executed: a command, a module or a script
Executed == SelectSeq(ran, LAMBDA e : e[1] \in {"exec", "run_module", "run_path"})

\* the executed command, module or script raised an Exception
RaisedException == \E k \in 1..Len(Executed) : Executed[k][2] = "Exception"

\* SystemExit left the executed code or the interactive session
Escaped ==
    \/ \E k \in 1..Len(Executed) : Executed[k][2] = "SystemExit"
    \/ Ran("interact") # <<>> /\ code = "raise SystemExit"

(* C32 as claimed: when run_python returns, it returns 2 without having    *)
(* executed anything when argument parsing failed, 0 for a version         *)
(* request, 1 whenever the executed command, module or script raised an    *)
(* exception, and 0 otherwise.                                             *)
C32_ExitCodesAsClaimed ==
    (RunPythonOver /\ code \in {"return 0", "return 1", "return 2"}) =>
        IF Refused THEN code = "return 2" /\ Executed = <<>>
        ELSE IF pyargs.V THEN code = "return 0"
        ELSE IF RaisedException THEN code = "return 1"
        ELSE code = "return 0"

(* C32, amended: run_python returns 2 without executing anything when      *)
(* argument parsing fails and 0 without executing anything for a help or   *)
(* version request; otherwise SystemExit raised by the executed code or by *)
(* the interactive session propagates to the caller, and else the call     *)
(* returns 0 after the interactive session when interactive mode is on,    *)
(* whether or not the executed code raised an Exception, and with          *)
(* interactive mode off 1 when the executed command, module or script      *)
(* raised an Exception and 0 when it did not.                              *)
C32_ExitCodes ==
    RunPythonOver =>
        IF Refused
        THEN code = "return 2" /\ Executed = <<>> /\ Ran("interact") = <<>>
        ELSE IF pyargs.h \/ pyargs.V
        THEN /\ code = "return 0" /\ Executed = <<>>
             /\ Ran("interact") = <<>> /\ Len(Ran("print")) = 1
        ELSE /\ Len(Executed) <= 1
             /\ (Executed # <<>>) <=>
                    (truthy(pyargs.c) \/ truthy(pyargs.m)
                        \/ truthy(pyargs.script))
             /\ IF Escaped THEN code = "raise SystemExit"
                ELSE IF pyargs.i
                THEN code = "return 0" /\ Len(Ran("interact")) = 1
                ELSE /\ Ran("interact") = <<>>
                     /\ code = (IF RaisedException THEN "return 1"
                                ELSE "return 0")

\* a command was run with -i, it raised an Exception, the interactive
\* session followed and run_python returned 0
C32_Witness ==
    /\ RunPythonOver
    /\ pyargs.i /\ truthy(pyargs.c)
    /\ ran = <<<<"exec", "Exception">>, <<"interact", "quiet">>>>
    /\ code = "return 0"

\* the list main works on holds a token
Has(t) == t \in Range(effective(passed, sys_argv))

\* main has returned, or an exception has left it
MainOver == flavour = "updater" /\ ctl = "done"

(* C33: when --self-update is anywhere in main's argument list, also after *)
(* a -m, -c or script token, the Python emulation is not run: a help       *)
(* request (-h, --help) wins over --version, which wins over self_update,  *)
(* whose result main returns.  When --self-update is absent the list goes  *)
(* unchanged to run_python, whose result main returns.                     *)
C33_MainDispatch ==
    [][/\ (flavour = "updater" /\ ctl = "main" /\ Has(SelfUpdate)) =>
              /\ ctl' = "done" /\ argv' = argv /\ pyargs' = pyargs
              /\ IF Has(Opt("h")) \/ Has(LongHelp)
                 THEN ran' = <<<<"print", "doc">>>> /\ code' = "return 0"
                 ELSE IF Has(LongVersion)
                 THEN /\ ran' = <<<<"print", "cosmofy.updater">>>>
                      /\ code' = "return 0"
                 ELSE /\ ran' = <<<<"call", "self_update">>>>
                      /\ code' \in {"return 0", "return 1", "raise URLError"}
       /\ (flavour = "updater" /\ ctl = "main" /\ ~Has(SelfUpdate)) =>
              /\ ctl' = "loop" /\ argv' = effective(passed, sys_argv)
              /\ pyargs' = PythonArgs(FALSE)
              /\ ran' = <<>> /\ code' = "running"
       /\ (flavour = "updater" /\ ctl # "main" /\ ctl' = "done") =>
              /\ ~Has(SelfUpdate)
              /\ <<"call", "self_update">> \notin Range(ran')]_pvars

\* main was handed a list with --self-update after a -m token and -h in
\* the place of its value: it printed its help and returned 0
C33_Witness ==
    /\ MainOver
    /\ passed = <<<<Opt("m"), Opt("h"), SelfUpdate>>>>
    /\ ran = <<<<"print", "doc">>>>
    /\ code = "return 0"

\* what the loop of parse has yet to do with a list: a token of combined
\* short flags of n characters weighs n, every other token 1
RECURSIVE Weight(_)
Weight(list) ==
    IF list = <<>> THEN 0
    ELSE (IF Combined(Head(list)) THEN Len(Head(list)) ELSE 1)
         + Weight(Tail(list))

(* C40: parse terminates on every finite argument list.  Each iteration of *)
(* its loop either consumes a token or replaces one token of combined      *)
(* short flags of n > 2 characters by n - 1 tokens of two characters,      *)
(* which are not expanded again, so what is left to do decreases with      *)
(* every iteration; and the loop ends, with the list exhausted, by a break *)
(* or with ValueError raised.                                              *)
C40_ParseTerminates ==
    /\ [][(ctl = "loop" /\ argv # <<>>) =>
             /\ Weight(argv') < Weight(argv)
             /\ \/ /\ Len(argv') < Len(argv)
                   /\ \E k \in 1..2 :
                          argv' = SubSeq(argv, k + 1, Len(argv))
                \/ /\ Combined(Head(argv))
                   /\ ctl' = "loop"
                   /\ Len(Head(argv)) > 2
                   /\ Len(argv') = Len(argv) + Len(Head(argv)) - 2
                   /\ SubSeq(argv', Len(Head(argv)), Len(argv')) = Tail(argv)
                   /\ \A k \in 1..(Len(Head(argv)) - 1) :
                          /\ argv'[k] = <<"-", Head(argv)[k + 1]>>
                          /\ Len(argv'[k]) = 2
                          /\ ~Combined(argv'[k])]_pvars
    /\ (ctl = "loop") ~> (ctl \in {"end", "raised"} \/ argv = <<>>)

\* the loop has ended by a break after a token of combined short flags was
\* expanded and the flags before the -c in it were applied
C40_Witness ==
    /\ ctl = "end"
    /\ Handed # <<>> /\ Head(Handed) = <<"-", "q", "c">>
    /\ pyargs.q /\ pyargs.c # <<>>

---------------------------------------------------------------------------
(* Bundler.run (src/src/cosmofy/bundler.py:328-341) and the steps it       *)
(* calls, on a ZipFile2 as modelled above.  Member names and patterns are  *)
(* sequences of characters: <<".", "a">> stands for ".args", <<"c", "u">>  *)
(* for "Lib/site-packages/cosmofy/updater.pyc", <<"c", "*">> for           *)
(* "Lib/site-packages/cosmofy/*" and <<"m">>, <<"n">> for the compiled     *)
(* modules of the files m.py and n.py; <<"x">> is a file that does not     *)
(* compile.  An event of the journal is <<operation, argument, step>>.     *)

MaxPatterns == 2

DotArgs == <<".", "a">>

UpdaterPyc == <<"c", "u">>

\* bundler.py:190: the members a clone drops
ClonePaths == << DotArgs, <<"c", "*">> >>

\* the --remove patterns of the model
UserPatterns == {<<"m">>, <<"*">>, DotArgs}

RemoveLists == UNION {[1..n -> UserPatterns] : n \in 0..MaxPatterns}

\* the files named by the --add arguments, as expand_globs yields them
AddLists == {<<>>, <<<<"m">>>>, <<<<"x">>>>, << <<"m">>, <<"n">> >>}

\* --args: none, "-m s", "-z"
ArgStrings == {<<>>, <<Opt("m"), <<"s">>>>, <<Opt("z")>>}

RECURSIVE add_all(_, _)
add_all(z, names) ==
    IF names = <<>> THEN z
    ELSE add_all(add_file(z, Head(names), <<0>>, DefaultMode), Tail(names))

\* the storage of an archive with these members, written and closed
Written(names) == close(add_all(ZipFile_init(<<>>, "a"), names)).storage

\* what the Python to start from holds: nothing, or .args and the updater
Bases == {Written(<<>>), Written(<<DotArgs, UpdaterPyc>>)}

\* PythonArgs.parse(argv) as a whole: "return" or "ValueError"
RECURSIVE parse(_, _)
parse(av, pa) ==
    IF av = <<>> THEN "return"
    ELSE LET r == iteration("updater", av, pa, <<>>, FALSE)
         IN IF r.ctl = "loop" THEN parse(r.argv, r.pa)
            ELSE IF r.ctl = "raised" THEN "ValueError"
            ELSE "return"

\* a step of run: the archive, the events issued, the exception raised
Stepped(z, evs, exc) == [zip |-> z, journal |-> evs, exc |-> exc]

\* bundler.py:252-258: zip_remove(archive, *patterns), which stops at the
\* first pattern archive.remove raises for
RECURSIVE zip_remove(_, _, _, _, _)
zip_remove(real, z, patterns, by, evs) ==
    IF patterns = <<>> THEN Stepped(z, evs, "none")
    ELSE IF ~real THEN zip_remove(real, z, Tail(patterns), by, evs)
    ELSE LET z1 == remove(z, Head(patterns))
             evs1 == Append(evs, <<"remove", Head(patterns), by>>)
         IN IF z1.exc # "none" THEN Stepped(z1, evs1, z1.exc)
            ELSE zip_remove(real, z1, Tail(patterns), by, evs1)

\* archive.add_file(dest, data, 0o644) under `if self.args.for_real`
run_add(real, z, dest, by, evs) ==
    IF ~real THEN Stepped(z, evs, "none")
    ELSE LET z1 == add_file(z, dest, <<0>>, DefaultMode)
         IN Stepped(z1, Append(evs, <<"add", dest, by>>), z1.exc)

\* bundler.py:260-291: add_updater(archive, python_args)
run_add_updater(o, z, python_args, evs) ==
    IF o.release_url = "" THEN Stepped(z, evs, "none")
    ELSE IF parse(python_args, PythonArgs(FALSE)) = "ValueError"
    THEN Stepped(z, evs, "SystemExit")
    ELSE IF UpdaterPyc \in DOMAIN z.NameToInfo THEN Stepped(z, evs, "none")
    ELSE run_add(~o.dry_run, z, UpdaterPyc, "write_args", evs)

\* bundler.py:293-301: write_args(archive, main)
write_args(o, z, main, evs) ==
    IF o.args = <<>> /\ ~main THEN Stepped(z, evs, "none")
    ELSE LET python_args == IF o.args # <<>> THEN o.args
                            ELSE <<Opt("m"), <<"m">>>>
             u == run_add_updater(o, z, python_args, evs)
         IN IF u.exc # "none" THEN u
            ELSE run_add(~o.dry_run, u.zip, DotArgs, "write_args", u.journal)

\* bundler.py:176-197: setup_temp and setup_archive; net is how the
\* download ends
setup_archive(o, net) ==
    IF o.dry_run THEN Stepped(ZipFile_init(<<>>, "a"), <<>>, "none")
    ELSE LET made == <<<<"mktemp", <<>>, "setup">>>>
             opened == ZipFile_init(o.base, "a")
         IN IF o.source = "clone"
            THEN zip_remove(TRUE, opened, ClonePaths, "setup",
                            Append(made, <<"copy", <<>>, "setup">>))
            ELSE IF net # "none"
            THEN Stepped(<<>>, Append(made, <<"download", <<>>, "setup">>),
                         net)
            ELSE IF o.source = "cache"
            THEN Stepped(opened,
                         made \o <<<<"download", <<>>, "setup">>,
                                   <<"copy", <<>>, "setup">>>>, "none")
            ELSE Stepped(opened,
                         Append(made, <<"download", <<>>, "setup">>), "none")

\* run with the output moved before the archive is closed
successor_move_first(s) ==
    CASE s = "setup" -> "zip_add"
      [] s = "zip_add" -> "zip_remove"
      [] s = "zip_remove" -> "write_args"
      [] s = "write_args" -> "write_output"
      [] s = "write_output" -> "close"
      [] s = "close" -> "write_receipt"
      [] OTHER -> "done"

\* bundler.py:330-341: the step of run that follows step s
successor(s) ==
    CASE s = "setup" -> "zip_add"
      [] s = "zip_add" -> "zip_remove"
      [] s = "zip_remove" -> "write_args"
      [] s = "write_args" -> "close"
      [] s = "close" -> "write_output"
      [] s = "write_output" -> "write_receipt"
      [] OTHER -> "done"

\* bundler.py:217-250: zip_add(archive, include, exclude) over the files;
\* a file that does not compile raises in process_file, before the add
RECURSIVE zip_add(_, _, _, _, _)
zip_add(real, z, files, main, evs) ==
    IF files = <<>>
    THEN [zip |-> z, journal |-> evs, exc |-> "none", main |-> main]
    ELSE IF Head(files) = <<"x">>
    THEN [zip |-> z, journal |-> evs, exc |-> "SyntaxError", main |-> main]
    ELSE LET r == run_add(real, z, Head(files), "zip_add", evs)
         IN IF r.exc # "none"
            THEN [zip |-> r.zip, journal |-> r.journal, exc |-> r.exc,
                  main |-> TRUE]
            ELSE zip_add(real, r.zip, Tail(files), TRUE, r.journal)

\* bundler.py:147-155 and 303-313: write_output(archive, main), which
\* moves the file behind the archive, if there is one; fs is how
\* shutil.move ends
write_output(o, file, evs, fs) ==
    IF file = <<>> \/ o.dry_run THEN [journal |-> evs, exc |-> "none"]
    ELSE IF fs # "none"
    THEN [journal |-> Append(evs, <<"move", <<>>, "write_output">>),
          exc |-> fs]
    ELSE [journal |-> evs \o <<<<"move", <<>>, "write_output">>,
                               <<"chmod", <<>>, "write_output">>>>,
          exc |-> "none"]

NotRun == <<vars, rvars, uvars, dvars, bvars, pvars>>

RunInit ==
    /\ stage = "setup"
    /\ opts \in [dry_run : BOOLEAN, source : {"clone", "cache", "download"},
                 base : Bases, add : AddLists, remove : RemoveLists,
                 args : ArgStrings, release_url : {"", "url"},
                 receipt : BOOLEAN]
    /\ target = [filename |-> <<>>, zip |-> <<>>, main |-> FALSE]
    /\ journal = <<>>
    /\ returned = <<>>
    /\ ArchiveIdle /\ ReceiptIdle /\ UpdaterIdle /\ DownloaderIdle
    /\ BundlerIdle /\ PythonIdle

\* a step of run has ended: run goes on with the next step, or the
\* exception ends it
Ends(z, evs, exc) ==
    /\ target' = [target EXCEPT !.zip = z]
    /\ journal' = evs
    /\ IF exc = "none"
       THEN stage' = successor(stage) /\ returned' = returned
       ELSE stage' = "done" /\ returned' = <<"raise", exc>>
    /\ UNCHANGED <<opts, NotRun>>

\* bundler.py:330
SetupArchive ==
    /\ stage = "setup"
    /\ \E net \in {"none", "URLError"} :
           LET r == setup_archive(opts, net)
           IN /\ target' = [filename |-> IF opts.dry_run THEN <<>>
                                         ELSE <<"temp">>,
                            zip |-> r.zip, main |-> FALSE]
              /\ journal' = r.journal
              /\ IF r.exc = "none"
                 THEN stage' = successor(stage) /\ returned' = returned
                 ELSE stage' = "done" /\ returned' = <<"raise", r.exc>>
    /\ UNCHANGED <<opts, NotRun>>

\* bundler.py:331-333
RunZipAdd ==
    /\ stage = "zip_add"
    /\ LET r == zip_add(~opts.dry_run, target.zip, opts.add, FALSE, journal)
       IN /\ target' = [target EXCEPT !.zip = r.zip, !.main = r.main]
          /\ journal' = r.journal
          /\ IF r.exc = "none"
             THEN stage' = successor(stage) /\ returned' = returned
             ELSE stage' = "done" /\ returned' = <<"raise", r.exc>>
    /\ UNCHANGED <<opts, NotRun>>

\* bundler.py:334
RunZipRemove ==
    /\ stage = "zip_remove"
    /\ LET r == zip_remove(~opts.dry_run, target.zip, opts.remove,
                           "zip_remove", journal)
       IN Ends(r.zip, r.journal, r.exc)

\* bundler.py:335
RunWriteArgs ==
    /\ stage = "write_args"
    /\ LET r == write_args(opts, target.zip, target.main, journal)
       IN Ends(r.zip, r.journal, r.exc)

\* bundler.py:336
RunClose ==
    /\ stage = "close"
    /\ LET z == close(target.zip)
       IN Ends(z, Append(journal, <<"close", <<>>, "close">>), z.exc)

\* bundler.py:338
RunWriteOutput ==
    /\ stage = "write_output"
    /\ \E fs \in {"none", "OSError"} :
           LET r == write_output(opts, target.filename, journal, fs)
           IN Ends(target.zip, r.journal, r.exc)

\* bundler.py:340-341: write_receipt (315-326), then run returns the output
RunWriteReceipt ==
    /\ stage = "write_receipt"
    /\ target' = target
    /\ journal' = IF opts.receipt /\ ~opts.dry_run
                  THEN Append(journal, <<"write_text", <<>>, "write_receipt">>)
                  ELSE journal
    /\ stage' = "done"
    /\ returned' = <<"return", "output">>
    /\ UNCHANGED <<opts, NotRun>>

RunNext ==
    \/ SetupArchive
    \/ RunZipAdd
    \/ RunZipRemove
    \/ RunWriteArgs
    \/ RunClose
    \/ RunWriteOutput
    \/ RunWriteReceipt

RunSpec == RunInit /\ [][RunNext]_nvars

---------------------------------------------------------------------------
(* Properties of Bundler.run *)

\* the place of a step in the order the claim gives
Rank(s) ==
    CASE s = "setup" -> 0
      [] s = "zip_add" -> 1
      [] s = "zip_remove" -> 2
      [] s = "write_args" -> 3
      [] s = "close" -> 4
      [] s = "write_output" -> 5
      [] OTHER -> 6

\* the positions of the journal with an operation among ops
At(ops) == {k \in 1..Len(journal) : journal[k][1] \in ops}

\* the archive is closed and its storage is a complete archive: the
\* directory of the listing and the end record follow the last member and
\* nothing follows them
ClosedAndWritten(z) ==
    /\ z.fp = "None"
    /\ Len(z.storage) = z.start_dir + Len(z.filelist) + 1
    /\ _RealGetContents(z.storage).exc = "none"
    /\ _RealGetContents(z.storage).list =
           [k \in 1..Len(z.filelist) |-> z.infos[z.filelist[k]]]

(* C39: run issues its operations in the order add files, remove          *)
(* patterns, write .args, close the archive, move the output, write the    *)
(* receipt.  The archive is closed, its directory written and its storage  *)
(* truncated, when the output file is moved into place; no add or remove   *)
(* is issued after the close; and .args is written after the user's        *)
(* remove patterns are applied, so that it is a member of the bundle       *)
(* whatever they are.                                                      *)
C39_RunOrder ==
    /\ [](\A j, k \in 1..Len(journal) :
              j < k => Rank(journal[j][3]) <= Rank(journal[k][3]))
    /\ [](\A c \in At({"close"}) :
              /\ \A k \in At({"add", "remove"}) : k < c
              /\ \A k \in At({"move", "chmod", "write_text"}) : c < k)
    /\ [](At({"move"}) # {} =>
              At({"close"}) # {} /\ ClosedAndWritten(target.zip))
    /\ [](\A k \in 1..Len(journal) :
              (journal[k][1] = "add" /\ journal[k][2] = DotArgs) =>
                  \A r \in 1..Len(journal) :
                      (journal[r][1] = "remove"
                          /\ journal[r][3] = "zip_remove") => r < k)
    /\ []((returned = <<"return", "output">> /\ ~opts.dry_run
             /\ (opts.args # <<>> \/ target.main)) =>
              DotArgs \in DOMAIN target.zip.NameToInfo)
    /\ [](stage \in {"zip_add", "zip_remove", "write_args", "close"} =>
              target.zip.fp = "open")
    /\ [](stage \in {"write_output", "write_receipt"} =>
              ClosedAndWritten(target.zip))

\* a bundle was made for real with a module added, every member removed by
\* a user's pattern, .args written, the archive closed and the output moved
C39_Witness ==
    /\ returned = <<"return", "output">>
    /\ ~opts.dry_run
    /\ opts.remove # <<>> /\ opts.remove[1] = <<"*">>
    /\ At({"add"}) # {} /\ At({"remove"}) # {} /\ At({"move"}) # {}
    /\ DotArgs \in DOMAIN target.zip.NameToInfo
    /\ ClosedAndWritten(target.zip)

====
